---- MODULE Spec2Model ----
(***************************************************************************)
(* Identity, tenancy and OAuth layer of the Meeting Intelligence server.   *)
(*                                                                         *)
(* Two specifications share this module:                                   *)
(*   SpecWs    - REST and MCP authentication and workspace resolution      *)
(*               (api.py, dependencies.py, main.py, mcp_server.py)         *)
(*   SpecOAuth - the OAuth token endpoint, the pending-code store and the  *)
(*               refresh-token consumption ledger (oauth.py, database.py)  *)
(* Python's None is the string None for scalars and the empty set for      *)
(* optional records (a set holding at most one record).                    *)
(***************************************************************************)
EXTENDS Integers, Sequences, FiniteSets, TLC

VARIABLES
    control_db_name,      \* settings.control_db_name ("" = not configured)
    azure_sql_server,     \* settings.azure_sql_server ("" = not configured)
    engine_registry,      \* database.engine_registry is not None
    phase,                \* "boot" before the lifespan startup, then "serving"
    control_up,           \* the control database answers queries
    now,                  \* time.time() in seconds
    rest,                 \* the REST request in flight and its response
    mcp,                  \* the MCP request in flight and its response
    token_cache,          \* main._token_cache: hash -> {email, expires_cache}
    workspace_cache,      \* main._workspace_cache: email -> {ctx, expires}
    utcnow,               \* datetime.utcnow() in whole seconds
    oauth_clients_cache,  \* oauth._oauth_clients_cache: client_id -> client
    pending_auth_codes,   \* oauth.pending_auth_codes: code -> grant
    next_code,            \* codes minted so far (secrets.token_urlsafe is fresh)
    next_family,          \* families started so far (uuid.uuid4 is fresh)
    ledger,               \* rows of the RefreshTokenUsage table
    issued,               \* refresh tokens handed out to clients
    resp,                 \* the last response of an OAuth endpoint
    exchanged,            \* history: codes a token pair was issued for
    redeemed,             \* history: refresh tokens a token pair was issued for
    recorded,             \* history: hashes ever inserted into the ledger
    replayed,             \* history: families a replay was detected in
    call,                 \* the last call of a library function: arguments and result
    _engines,             \* EngineRegistry._engines: database name -> engine
    _lock,                \* EngineRegistry._lock: 0 when free, else the holding thread
    workers,              \* the threads calling get_engine: position, argument, result
    pools,                \* history: the engines _create_engine has made
    oauth_client_store,   \* the OAuthClient table: client id -> client data
    next_client,          \* the number of client ids uuid4 has produced
    retry,                \* one call of call_with_retry: position, attempt, connections
    _windows,             \* RateLimitMiddleware._windows: key -> list of timestamps
    _last_cleanup,        \* RateLimitMiddleware._last_cleanup
    rate_lock,            \* RateLimitMiddleware._lock is held (while a 429 is being sent)
    waiters,              \* requests waiting for the lock, in order, each with its `now`
    monotonic,            \* time.monotonic(), in seconds
    forwarded,            \* history: key -> timestamps of the requests passed to the app
    rate_resp,            \* the limiter's answer to the request handled last
    arrivals,             \* the number of single requests that have arrived
    revoked,              \* hashes of the tokens whose is_active the store has set to 0
    validating,           \* the calls of validate_mcp_token in flight, by request
    switched              \* history: who switched workspace last, and to which one

wsVars == <<control_db_name, azure_sql_server, engine_registry, phase,
            control_up, now, rest, mcp, token_cache, workspace_cache>>

oauthVars == <<utcnow, oauth_clients_cache, pending_auth_codes, next_code,
               next_family, ledger, issued, resp, exchanged, redeemed, recorded, replayed>>

regVars == <<_engines, _lock, workers, pools>>

clientVars == <<oauth_client_store, next_client>>

rateVars ==
    <<_windows, _last_cleanup, rate_lock, waiters, monotonic, forwarded, rate_resp, arrivals>>

valVars == <<revoked, validating>>

execVars == <<retry, rateVars, valVars, switched>>

libVars == <<call, regVars, clientVars, execVars>>

vars == <<wsVars, oauthVars, libVars>>

None == "None"

\* ------------------------------------------------------------------------
\* Bounds
\* ------------------------------------------------------------------------
MaxThreads == 3        \* threads calling get_engine
MaxClients == 2        \* clients registered through /oauth/register
MaxArrivals == 3       \* requests that reach the rate limiter one at a time
ShortStep == 260       \* a step of the clock shorter than the cache's TTL
MaxValidations == 2    \* calls of validate_mcp_token in flight
MaxWaiters == 1        \* requests waiting for the rate limiter's lock
LongBudget == 6        \* a max_retries large enough for the delay to reach its cap
MaxNow == 500          \* the clock of SpecWs stops here
TickSeconds == 400     \* one step of the clock of SpecWs

\* ------------------------------------------------------------------------
\* Program constants
\* ------------------------------------------------------------------------
TOKEN_CACHE_TTL == 300
TOKEN_CACHE_MAX_SIZE == 1000

\* ------------------------------------------------------------------------
\* Contents of the control database and of the legacy ClientToken table
\* ------------------------------------------------------------------------
\* workspaces(id, name, db_name, is_default, is_archived)
WorkspacesTable ==
    { [id |-> 1, name |-> "alpha", db_name |-> "mi-alpha", is_default |-> FALSE, is_archived |-> FALSE],
      [id |-> 2, name |-> "bravo", db_name |-> "mi-bravo", is_default |-> TRUE,  is_archived |-> FALSE],
      [id |-> 3, name |-> "zulu",  db_name |-> "mi-zulu",  is_default |-> FALSE, is_archived |-> TRUE] }

\* users(email, is_org_admin, default_workspace_id); 0 stands for NULL
UsersTable ==
    { [email |-> "ua",     is_org_admin |-> FALSE, default_workspace_id |-> 0],
      [email |-> "uc",     is_org_admin |-> FALSE, default_workspace_id |-> 1],
      [email |-> "adm",    is_org_admin |-> TRUE,  default_workspace_id |-> 3],
      [email |-> "orphan", is_org_admin |-> FALSE, default_workspace_id |-> 0] }

\* workspace_members(user, workspace_id, role)
WorkspaceMembersTable ==
    { [email |-> "ua",  workspace_id |-> 1, role |-> "member"],
      [email |-> "uc",  workspace_id |-> 1, role |-> "member"],
      [email |-> "uc",  workspace_id |-> 2, role |-> "chair"],
      [email |-> "uc",  workspace_id |-> 3, role |-> "viewer"],
      [email |-> "adm", workspace_id |-> 2, role |-> "viewer"] }

\* hashlib.sha256(token.encode()).hexdigest()
Sha256(token) == <<"sha256", token>>

\* tokens(token_hash, user, is_active and unexpired) of the control database
TokensTable ==
    { [token_hash |-> Sha256("tok_ua"),     email |-> "ua",     live |-> TRUE],
      [token_hash |-> Sha256("tok_uc"),     email |-> "uc",     live |-> TRUE],
      [token_hash |-> Sha256("tok_adm"),    email |-> "adm",    live |-> TRUE],
      [token_hash |-> Sha256("tok_orphan"), email |-> "orphan", live |-> TRUE],
      [token_hash |-> Sha256("tok_old"),    email |-> "ua",     live |-> FALSE] }

\* ClientToken(TokenHash, ClientEmail, IsActive and unexpired) of the legacy database
ClientTokenTable ==
    { [token_hash |-> Sha256("tok_legacy"), client_email |-> "legacy", live |-> TRUE],
      [token_hash |-> Sha256("tok_old"),    client_email |-> "ua",     live |-> TRUE] }

\* ORDER BY name: the collation order of the workspace slugs
NameOrder == <<"alpha", "bravo", "default", "zulu">>

\* str(workspace_id)
Str(id) == CASE id = 0 -> "0" [] id = 1 -> "1" [] id = 2 -> "2" [] id = 3 -> "3"

\* ------------------------------------------------------------------------
\* workspace_context.py
\* ------------------------------------------------------------------------
WorkspaceMembership(w, role) ==
    [workspace_id |-> w.id, workspace_name |-> w.name, db_name |-> w.db_name,
     role |-> role, is_default |-> w.is_default, is_archived |-> w.is_archived]

WorkspaceContext(user_email, is_org_admin, memberships, active) ==
    [user_email |-> user_email, is_org_admin |-> is_org_admin,
     memberships |-> memberships, active |-> active]

legacy_membership ==
    [workspace_id |-> 0, workspace_name |-> "default", db_name |-> "meeting-intelligence",
     role |-> "chair", is_default |-> TRUE, is_archived |-> FALSE]

make_legacy_context(user_email) ==
    WorkspaceContext(user_email, TRUE, <<legacy_membership>>, legacy_membership)

\* ------------------------------------------------------------------------
\* Queries against the control database
\* ------------------------------------------------------------------------
Min(S) == CHOOSE x \in S : \A y \in S : x <= y

NameRank(name) == CHOOSE i \in 1..Len(NameOrder) : NameOrder[i] = name

\* ORDER BY w.is_default DESC, w.name
OrderKey(m) == (IF m.is_default THEN 0 ELSE 10) + NameRank(m.workspace_name)

RECURSIVE OrderBy(_)
OrderBy(S) ==
    IF S = {} THEN <<>>
    ELSE LET first == CHOOSE m \in S : \A o \in S : OrderKey(m) <= OrderKey(o)
         IN  <<first>> \o OrderBy(S \ {first})

\* workspace_members JOIN workspaces for one user
MemberRows(email) ==
    { WorkspaceMembership(w, wm.role) :
        <<wm, w>> \in { p \in WorkspaceMembersTable \X WorkspacesTable :
                          p[1].email = email /\ p[1].workspace_id = p[2].id } }

\* dependencies._get_user_memberships: (is_org_admin, default_workspace_id, memberships)
_get_user_memberships(email) ==
    LET user_rows == { u \in UsersTable : u.email = email }
    IN  IF user_rows = {}
        THEN [is_org_admin |-> FALSE, default_workspace_id |-> 0, memberships |-> <<>>]
        ELSE LET u == CHOOSE u \in user_rows : TRUE
             IN  [is_org_admin |-> u.is_org_admin,
                  default_workspace_id |-> u.default_workspace_id,
                  memberships |-> OrderBy({ m \in MemberRows(email) : ~m.is_archived })]

\* database.validate_token_from_control_db: the set holding the result dict, {} for None.
\* registry is the engine_registry global of database.py; a failing query is caught
\* inside the function and becomes None.
validate_token_from_control_db(token_hash, registry, db_name, up) ==
    IF ~registry \/ db_name = "" THEN {}
    ELSE IF ~up THEN {}
    ELSE { [user_email |-> t.email,
            is_org_admin |-> u.is_org_admin,
            default_workspace_id |-> u.default_workspace_id,
            memberships |-> OrderBy(MemberRows(t.email))] :
            <<t, u>> \in { p \in TokensTable \X UsersTable :
                             /\ p[1].token_hash = token_hash
                             /\ p[1].live
                             /\ p[1].email = p[2].email } }

\* database.validate_client_token: the set holding the row of the legacy table
validate_client_token(token_hash) ==
    { [client_email |-> t.client_email] :
        t \in { r \in ClientTokenTable : r.token_hash = token_hash /\ r.live } }

\* `if requested:` - None and the empty string both count as no request
Truthy(s) == s # None /\ s # ""

\* Mutant of NotAMember: the first membership is substituted for the requested one
NotAMember_substitutes(memberships) == [status |-> 200, active |-> {memberships[1]}]

\* dependencies._resolve_active_workspace, line 103:
\* raise HTTPException(403, "Not a member of workspace ...")
NotAMember(memberships) == [status |-> 403, active |-> {}]

\* Mutant of UserDefaultMatches: the user's default is never looked for
UserDefaultMatches_none(memberships, default_workspace_id) == {}

\* dependencies._resolve_active_workspace, lines 106-109: the memberships whose
\* workspace_id equals the user's default_workspace_id
UserDefaultMatches(memberships, default_workspace_id) ==
    { i \in 1..Len(memberships) : memberships[i].workspace_id = default_workspace_id }

\* dependencies._resolve_active_workspace: status 200 with the active membership,
\* or the HTTPException's status with no membership
_resolve_active_workspace(memberships, requested, default_workspace_id) ==
    LET idx == 1..Len(memberships)
        byRequest == { i \in idx : \/ memberships[i].workspace_name = requested
                                   \/ Str(memberships[i].workspace_id) = requested }
        byUserDefault == UserDefaultMatches(memberships, default_workspace_id)
        byOrgDefault == { i \in idx : memberships[i].is_default }
        ok(i) == [status |-> 200, active |-> {memberships[i]}]
    IN  IF memberships = <<>> THEN [status |-> 403, active |-> {}]
        ELSE IF Truthy(requested)
             THEN IF byRequest # {} THEN ok(Min(byRequest))
                  ELSE NotAMember(memberships)
        ELSE IF default_workspace_id # 0 /\ byUserDefault # {} THEN ok(Min(byUserDefault))
        ELSE IF byOrgDefault # {} THEN ok(Min(byOrgDefault))
        ELSE ok(1)

\* _mcp_user_var's default
SystemUser == "system@generationai.co.nz"

McpIdle ==
    [pc |-> "idle", kind |-> None, token |-> None, status |-> 0,
     user |-> SystemUser, ctx |-> {}, validated |-> None,
     lookup_failed |-> FALSE, legacy_consulted |-> FALSE,
     override |-> None, code |-> None, tool_ctx |-> {}]

\* ------------------------------------------------------------------------
\* REST: api.get_current_user and dependencies.resolve_workspace
\* ------------------------------------------------------------------------
\* `from .database import engine_registry` binds the value the global has when
\* api.py is imported, which is None; the lifespan's later assignment to
\* database.engine_registry does not reach this name.
api_engine_registry == FALSE

\* settings.get_allowed_users_list()
AllowedUsers == {"ua", "adm"}

\* azure_scheme: the e-mail claim of a valid Entra ID token, None when it raises
AzureEmail(bearer) ==
    CASE bearer = "aad_ua"    -> "ua"
      [] bearer = "aad_guest" -> "guest"
      [] OTHER                -> None

\* Values of the Authorization header (None = no header) and of X-Workspace-ID
BearerInputs == {None, "tok_ua", "tok_uc", "tok_adm", "tok_orphan", "tok_old",
                 "tok_legacy", "tok_bad", "aad_ua", "aad_guest"}
WorkspaceInputs == {None, "", "alpha", "bravo", "zulu", "2", "7"}

\* api.get_current_user: status 200 with the e-mail, or the HTTPException's status.
\* control_consulted / legacy_consulted record the calls of
\* validate_token_from_control_db / validate_client_token.
get_current_user(bearer, db_name, up) ==
    LET token_hash == Sha256(bearer)
        use_control == db_name # "" /\ api_engine_registry
        result == IF use_control
                  THEN validate_token_from_control_db(token_hash, engine_registry, db_name, up)
                  ELSE {}
        legacy == validate_client_token(token_hash)
        azure == AzureEmail(bearer)
        out(st, email, ctl, leg) ==
            [status |-> st, user_email |-> email,
             control_consulted |-> ctl, legacy_consulted |-> leg]
    IN  IF bearer # None /\ result # {}
            THEN out(200, (CHOOSE r \in result : TRUE).user_email, use_control, FALSE)
        ELSE IF bearer # None /\ legacy # {}
            THEN out(200, (CHOOSE r \in legacy : TRUE).client_email, use_control, TRUE)
        ELSE IF azure = None
            THEN out(401, None, bearer # None /\ use_control, bearer # None)
        ELSE IF azure \notin AllowedUsers
            THEN out(403, None, bearer # None /\ use_control, bearer # None)
        ELSE out(200, azure, bearer # None /\ use_control, bearer # None)

\* Mutant of ControlUnavailable: the failure falls back to the legacy context
ControlUnavailable_legacy(user_email) ==
    [status |-> 200, ctx |-> {make_legacy_context(user_email)},
     control_failed |-> TRUE, loaded |-> FALSE]

\* dependencies.resolve_workspace, lines 142-145: the control-store read raised,
\* raise HTTPException(503, ...)
ControlUnavailable(user_email) ==
    [status |-> 503, ctx |-> {}, control_failed |-> TRUE, loaded |-> FALSE]

\* dependencies.resolve_workspace: status 200 with the context, or the
\* HTTPException's status with no context.  control_failed records that the
\* control-store read raised, loaded that the memberships were read.
resolve_workspace(user_email, x_workspace_id, db_name, registry, up) ==
    LET q == _get_user_memberships(user_email)
        pick == _resolve_active_workspace(q.memberships, x_workspace_id, q.default_workspace_id)
        out(st, ctx, failed, loaded) ==
            [status |-> st, ctx |-> ctx, control_failed |-> failed, loaded |-> loaded]
    IN  IF db_name = "" \/ ~registry
            THEN out(200, {make_legacy_context(user_email)}, FALSE, FALSE)
        ELSE IF user_email = None THEN out(401, {}, FALSE, FALSE)
        ELSE IF ~up THEN ControlUnavailable(user_email)
        ELSE IF q.memberships = <<>> THEN out(403, {}, FALSE, TRUE)
        ELSE IF pick.status # 200 THEN out(pick.status, {}, FALSE, TRUE)
        ELSE out(200,
                 {WorkspaceContext(user_email, q.is_org_admin, q.memberships,
                                   CHOOSE m \in pick.active : TRUE)},
                 FALSE, TRUE)

RestIdle ==
    [pc |-> "idle", bearer |-> None, x_workspace_id |-> None, user_email |-> None,
     status |-> 0, ctx |-> {}, control_consulted |-> FALSE, legacy_consulted |-> FALSE,
     control_failed |-> FALSE, loaded |-> FALSE]

\* Depends(authenticate_and_store): runs get_current_user and stores the e-mail
\* on request.state
authenticate_and_store(bearer) ==
    /\ phase = "serving"
    /\ rest.pc \in {"idle", "done"}
    /\ mcp.pc \in {"idle", "done"}
    /\ mcp' = McpIdle
    /\ LET r == get_current_user(bearer, control_db_name, control_up)
       IN  rest' = [RestIdle EXCEPT
                      !.pc = IF r.status = 200 THEN "authed" ELSE "done",
                      !.bearer = bearer,
                      !.user_email = r.user_email,
                      !.status = IF r.status = 200 THEN 0 ELSE r.status,
                      !.control_consulted = r.control_consulted,
                      !.legacy_consulted = r.legacy_consulted]
    /\ UNCHANGED <<control_db_name, azure_sql_server, engine_registry, phase,
                   control_up, now, token_cache, workspace_cache>>
    /\ UNCHANGED <<oauthVars, libVars>>

\* Depends(resolve_workspace) of the same request
RestResolve(x_workspace_id) ==
    /\ phase = "serving"
    /\ rest.pc = "authed"
    /\ LET r == resolve_workspace(rest.user_email, x_workspace_id,
                                  control_db_name, engine_registry, control_up)
       IN  rest' = [rest EXCEPT
                      !.pc = "done",
                      !.x_workspace_id = x_workspace_id,
                      !.status = r.status,
                      !.ctx = r.ctx,
                      !.control_failed = r.control_failed,
                      !.loaded = r.loaded]
    /\ UNCHANGED <<control_db_name, azure_sql_server, engine_registry, phase,
                   control_up, now, mcp, token_cache, workspace_cache>>
    /\ UNCHANGED <<oauthVars, libVars>>

\* ------------------------------------------------------------------------
\* MCP: main.validate_mcp_token, main._resolve_workspace_for_mcp,
\*      main.mcp_auth_middleware and mcp_server._resolve_ctx
\* ------------------------------------------------------------------------
\* dict assignment d[k] = v
Put(d, k, v) == [x \in DOMAIN d \cup {k} |-> IF x = k THEN v ELSE d[x]]

\* dict deletion del d[k] / d.pop(k, None)
Drop(d, k) == [x \in DOMAIN d \ {k} |-> d[x]]

\* min(cache, key=lambda k: cache[k][field]) for the two caches
OldestTokenKey(cache) ==
    CHOOSE k \in DOMAIN cache : \A o \in DOMAIN cache : cache[k].expires_cache <= cache[o].expires_cache
OldestWorkspaceKey(cache) ==
    CHOOSE k \in DOMAIN cache : \A o \in DOMAIN cache : cache[k].expires <= cache[o].expires

\* The bearer strings that are access tokens signed by oauth.token
AccessTokens == {"oauth_c1"}

\* Mutant of OAuthSub: every bearer string decodes as an access token
OAuthSub_any(bearer) == "c1"

\* oauth.validate_oauth_token as the MCP middleware sees it: the sub claim of
\* an accepted access token, None otherwise
OAuthSub(bearer) == IF bearer \in AccessTokens THEN "c1" ELSE None

\* f"oauth:{sub}"
OAuthEmail(sub) == IF sub = "c1" THEN "oauth:c1" ELSE "oauth:unknown"

McpTokenInputs == {"tok_ua", "tok_uc", "tok_orphan", "tok_legacy", "tok_bad", "oauth_c1"}
McpKinds == {"path", "query", "bearer"}
OverrideInputs == {None, "", "bravo", "zulu", "2", "7", "default"}

\* main._resolve_workspace_for_mcp: ctx is what set_mcp_workspace_context
\* receives ({} when it is not called), cache the new _workspace_cache
_resolve_workspace_for_mcp(email, cache, t, db_name, registry, up) ==
    LET q == _get_user_memberships(email)
        pick == _resolve_active_workspace(q.memberships, None, q.default_workspace_id)
        ctx == IF db_name # "" /\ registry
               THEN IF ~up THEN {}
                    ELSE IF q.memberships # <<>>
                         THEN {WorkspaceContext(email, q.is_org_admin, q.memberships,
                                                CHOOSE m \in pick.active : TRUE)}
                         ELSE {}
               ELSE {make_legacy_context(email)}
        stored == Put(cache, email, [ctx |-> CHOOSE c \in ctx : TRUE,
                                     expires |-> t + TOKEN_CACHE_TTL])
    IN  IF email \in DOMAIN cache /\ cache[email].expires > t
            THEN [ctx |-> {cache[email].ctx}, cache |-> cache]
        ELSE IF ctx = {} THEN [ctx |-> {}, cache |-> cache]
        ELSE [ctx |-> ctx,
              cache |-> IF Cardinality(DOMAIN stored) > TOKEN_CACHE_MAX_SIZE
                        THEN Drop(stored, OldestWorkspaceKey(stored))
                        ELSE stored]

\* main.validate_mcp_token: email is the return value (None for None); tcache
\* and wcache are the caches afterwards; lookup_failed records that the
\* control-store lookup raised, legacy_consulted that validate_client_token
\* was called
validate_mcp_token(token, tcache, wcache, t, db_name, registry, up) ==
    LET token_hash == Sha256(token)
        hit == token_hash \in DOMAIN tcache /\ tcache[token_hash].expires_cache > t
        swept == [k \in { k \in DOMAIN tcache : tcache[k].expires_cache > t } |-> tcache[k]]
        use_control == db_name # "" /\ registry
        result == IF use_control
                  THEN validate_token_from_control_db(token_hash, registry, db_name, up)
                  ELSE {}
        r == CHOOSE r \in result : TRUE
        pick == _resolve_active_workspace(r.memberships, None, r.default_workspace_id)
        wcache2 == IF result # {} /\ r.memberships # <<>>
                   THEN Put(wcache, r.user_email,
                            [ctx |-> WorkspaceContext(r.user_email, r.is_org_admin, r.memberships,
                                                      CHOOSE m \in pick.active : TRUE),
                             expires |-> t + TOKEN_CACHE_TTL])
                   ELSE wcache
        use_legacy == result = {} /\ db_name = ""
        legacy == IF use_legacy THEN validate_client_token(token_hash) ELSE {}
        email == IF result # {} THEN r.user_email
                 ELSE IF legacy # {} THEN (CHOOSE l \in legacy : TRUE).client_email
                 ELSE None
        room == IF Cardinality(DOMAIN swept) >= TOKEN_CACHE_MAX_SIZE
                THEN Drop(swept, OldestTokenKey(swept))
                ELSE swept
    IN  IF hit
        THEN [email |-> tcache[token_hash].email, tcache |-> tcache, wcache |-> wcache,
              lookup_failed |-> FALSE, legacy_consulted |-> FALSE]
        ELSE [email |-> email,
              tcache |-> IF email # None
                         THEN Put(room, token_hash,
                                  [email |-> email, expires_cache |-> t + TOKEN_CACHE_TTL])
                         ELSE Drop(swept, token_hash),
              wcache |-> wcache2,
              lookup_failed |-> use_control /\ ~up,
              legacy_consulted |-> use_legacy]

\* mcp_server._resolve_ctx: the context the tool runs with, or the error dict's code
_resolve_ctx(ctxvar, user, workspace_override, db_name) ==
    LET base == IF ctxvar # {} THEN ctxvar
                ELSE IF db_name # "" THEN {}
                ELSE {make_legacy_context(user)}
        ctx == CHOOSE c \in base : TRUE
        idx == 1..Len(ctx.memberships)
        found == { i \in idx : \/ ctx.memberships[i].workspace_name = workspace_override
                               \/ Str(ctx.memberships[i].workspace_id) = workspace_override }
    IN  IF base = {} THEN [code |-> "AUTH_ERROR", ctx |-> {}]
        ELSE IF Truthy(workspace_override)
             THEN IF found # {}
                  THEN [code |-> "ok",
                        ctx |-> {WorkspaceContext(ctx.user_email, ctx.is_org_admin, ctx.memberships,
                                                  ctx.memberships[Min(found)])}]
                  ELSE [code |-> "FORBIDDEN", ctx |-> {}]
        ELSE [code |-> "ok", ctx |-> base]

\* main.mcp_auth_middleware for a request that carries one credential: in the
\* path (/mcp/{token}), in the query string or X-API-Key ("query"), or in the
\* Authorization header ("bearer").  A forwarded request has status 0.
mcp_auth_middleware(kind, token) ==
    /\ phase = "serving"
    /\ mcp.pc \in {"idle", "done"}
    /\ rest.pc \in {"idle", "done"}
    /\ LET first == validate_mcp_token(token, token_cache, workspace_cache, now,
                                       control_db_name, engine_registry, control_up)
           \* the path token and the bearer token are validated before line 500
           pre == IF kind = "query"
                  THEN [email |-> None, tcache |-> token_cache, wcache |-> workspace_cache,
                        lookup_failed |-> FALSE, legacy_consulted |-> FALSE]
                  ELSE first
           sub == IF kind = "bearer" /\ pre.email = None THEN OAuthSub(token) ELSE None
           \* line 500: validate_mcp_token(token) once a token is selected
           selected == kind = "query" \/ pre.email # None
           second == validate_mcp_token(token, pre.tcache, pre.wcache, now,
                                        control_db_name, engine_registry, control_up)
           email == IF sub # None THEN OAuthEmail(sub)
                    ELSE IF selected THEN second.email
                    ELSE None
           tc == IF selected THEN second.tcache ELSE pre.tcache
           wc == IF selected THEN second.wcache ELSE pre.wcache
           ws == _resolve_workspace_for_mcp(email, wc, now, control_db_name,
                                            engine_registry, control_up)
           seen == IF kind = "query" THEN second ELSE first
       IN  /\ mcp' = [McpIdle EXCEPT
                        !.pc = IF email = None THEN "done" ELSE "forwarded",
                        !.kind = kind,
                        !.token = token,
                        !.status = IF email = None THEN 401 ELSE 0,
                        !.user = IF email = None THEN SystemUser ELSE email,
                        !.ctx = IF email = None THEN {} ELSE ws.ctx,
                        !.validated = seen.email,
                        !.lookup_failed = seen.lookup_failed,
                        !.legacy_consulted = seen.legacy_consulted]
           /\ token_cache' = tc
           /\ workspace_cache' = IF email = None THEN wc ELSE ws.cache
    /\ rest' = RestIdle
    /\ UNCHANGED <<control_db_name, azure_sql_server, engine_registry, phase,
                   control_up, now>>
    /\ UNCHANGED <<oauthVars, libVars>>

\* A tool handler of mcp_server.py: ctx = _resolve_ctx(workspace), then
\* _mcp_tool_call returns the error dict or runs the tool with ctx
McpToolCall(workspace_override) ==
    /\ mcp.pc = "forwarded"
    /\ LET r == _resolve_ctx(mcp.ctx, mcp.user, workspace_override, control_db_name)
       IN  mcp' = [mcp EXCEPT !.pc = "done", !.override = workspace_override,
                              !.code = r.code, !.tool_ctx = r.ctx]
    /\ UNCHANGED <<control_db_name, azure_sql_server, engine_registry, phase,
                   control_up, now, rest, token_cache, workspace_cache>>
    /\ UNCHANGED <<oauthVars, libVars>>

\* mcp_server.switch_workspace: _resolve_ctx(workspace), and on success
\* set_mcp_workspace_context(ctx)
switch_workspace(workspace) ==
    /\ mcp.pc = "forwarded"
    /\ LET r == _resolve_ctx(mcp.ctx, mcp.user, workspace, control_db_name)
       IN  mcp' = [mcp EXCEPT !.pc = "done", !.override = workspace,
                              !.code = r.code, !.tool_ctx = r.ctx,
                              !.ctx = IF r.code = "ok" THEN r.ctx ELSE mcp.ctx]
    /\ UNCHANGED <<control_db_name, azure_sql_server, engine_registry, phase,
                   control_up, now, rest, token_cache, workspace_cache>>
    /\ UNCHANGED <<oauthVars, call, regVars, clientVars, retry, rateVars, valVars>>

\* switch_workspace where the history of switches is not kept
SwitchUnobserved(workspace) == switch_workspace(workspace) /\ UNCHANGED switched

\* switch_workspace, and the history notes who switched last and to which
\* workspace
SwitchObserved(workspace) ==
    /\ switch_workspace(workspace)
    /\ switched' = IF mcp'.code = "ok"
                   THEN {[user |-> mcp.user, workspace_id |-> c.active.workspace_id] : c \in mcp'.tool_ctx}
                   ELSE switched

\* main.run_stdio: a tool call without the HTTP middleware; the contextvars
\* hold their defaults
StdioToolCall(workspace_override) ==
    /\ phase = "boot"
    /\ LET r == _resolve_ctx({}, SystemUser, workspace_override, control_db_name)
       IN  mcp' = [McpIdle EXCEPT !.pc = "done", !.kind = "stdio",
                                  !.override = workspace_override,
                                  !.code = r.code, !.tool_ctx = r.ctx]
    /\ UNCHANGED <<control_db_name, azure_sql_server, engine_registry, phase,
                   control_up, now, rest, token_cache, workspace_cache>>
    /\ UNCHANGED <<oauthVars, libVars>>

\* main.run_http lifespan: the engine registry exists iff azure_sql_server is set
lifespan ==
    /\ phase = "boot"
    /\ phase' = "serving"
    /\ engine_registry' = (azure_sql_server # "")
    /\ mcp' = McpIdle
    /\ UNCHANGED <<control_db_name, azure_sql_server, control_up, now, rest,
                   token_cache, workspace_cache>>
    /\ UNCHANGED <<oauthVars, libVars>>

\* The control database becomes unreachable / reachable again
ControlStoreFlip ==
    /\ phase = "serving"
    /\ control_up' = ~control_up
    /\ UNCHANGED <<control_db_name, azure_sql_server, engine_registry, phase,
                   now, rest, mcp, token_cache, workspace_cache>>
    /\ UNCHANGED <<oauthVars, libVars>>

\* time.time() advances
Tick ==
    /\ phase = "serving"
    /\ now + TickSeconds <= MaxNow
    /\ now' = now + TickSeconds
    /\ UNCHANGED <<control_db_name, azure_sql_server, engine_registry, phase,
                   control_up, rest, mcp, token_cache, workspace_cache>>
    /\ UNCHANGED <<oauthVars, libVars>>

WsQuiet ==
    /\ control_db_name \in {"", "mi-control"}
    /\ azure_sql_server \in {"", "sql.example"}
    /\ engine_registry = FALSE
    /\ phase = "boot"
    /\ control_up = TRUE
    /\ now = 0
    /\ rest = RestIdle
    /\ mcp = McpIdle
    /\ token_cache = <<>>
    /\ workspace_cache = <<>>

WsNext ==
    \/ lifespan
    \/ ControlStoreFlip
    \/ Tick
    \/ \E bearer \in BearerInputs : authenticate_and_store(bearer)
    \/ \E x \in WorkspaceInputs : RestResolve(x)
    \/ \E kind \in McpKinds, token \in McpTokenInputs : mcp_auth_middleware(kind, token)
    \/ \E w \in OverrideInputs : McpToolCall(w)
    \/ \E w \in OverrideInputs : SwitchUnobserved(w)
    \/ \E w \in OverrideInputs : StdioToolCall(w)



\* ------------------------------------------------------------------------
\* Properties of SpecWs
\* ------------------------------------------------------------------------
\* The REST request was authenticated and resolve_workspace has answered
RestResolved == rest.pc = "done" /\ rest.user_email # None

\* A tool handler has run (after the middleware forwarded, or over stdio)
ToolCalled == mcp.pc = "done" /\ mcp.status = 0

IsLegacyContext(ctx) == ctx = make_legacy_context(ctx.user_email)

\* C1: with a control database name configured, resolve_workspace never
\* returns the legacy (org-admin, chair) context, and with the engine registry
\* absent it answers 503.
C1_RestFailsClosed ==
    (control_db_name # "" /\ RestResolved) =>
        /\ \A c \in rest.ctx : ~IsLegacyContext(c)
        /\ (~engine_registry => rest.status = 503)

\* C2: with a control database name configured, no MCP tool call runs with
\* the legacy context, and a tool call whose workspace context was not
\* resolved returns AUTH_ERROR.
C2_McpFailsClosed ==
    (control_db_name # "" /\ ToolCalled) =>
        /\ \A c \in mcp.tool_ctx : ~IsLegacyContext(c)
        /\ (mcp.ctx = {} => mcp.code = "AUTH_ERROR")
        /\ (~engine_registry => mcp.code = "AUTH_ERROR")

\* What validate_mcp_token returns for a token no table knows (Invalid)
InvalidOutcome ==
    validate_mcp_token("tok_bad", <<>>, <<>>, 0, "mi-control", TRUE, TRUE).email

\* C3: when the control store is configured and the token lookup against it
\* fails, token validation returns an outcome distinct from Invalid, yields
\* no identity and does not consult the legacy token table.
C3_LookupFailureIsUnavailable ==
    mcp.lookup_failed =>
        /\ mcp.validated # InvalidOutcome
        /\ mcp.validated \notin { u.email : u \in UsersTable }
        /\ ~mcp.legacy_consulted

\* The control store's tokens table accepts the bearer token
ControlKnows(bearer) ==
    \E t \in TokensTable : t.token_hash = Sha256(bearer) /\ t.live

\* C4: with a control database name configured, get_current_user never
\* consults the legacy ClientToken table, and a bearer token that neither the
\* control store nor Azure AD accepts ends in 401.
C4_NoLegacyTokenFallback ==
    (control_db_name # "" /\ rest.pc # "idle") =>
        /\ ~rest.legacy_consulted
        /\ (rest.bearer # None /\ ~ControlKnows(rest.bearer) /\ AzureEmail(rest.bearer) = None
              => rest.status = 401)

\* C5: when the control-store read of resolve_workspace raises, the response
\* is 503 and there is no WorkspaceContext.
C5_ControlFailureIs503 ==
    [][\A x \in WorkspaceInputs :
         (RestResolve(x) /\ control_db_name # "" /\ engine_registry /\ ~control_up)
            => (rest'.status = 503 /\ rest'.ctx = {})]_vars

C5_Witness ==
    /\ RestResolved /\ rest.control_failed /\ ~control_up
    /\ rest.status = 503 /\ rest.x_workspace_id = "alpha"

\* The identifier names none of the workspaces the principal is a member of
NamesNoMembership(email, w) ==
    \A wm \in WorkspaceMembersTable, ws \in WorkspacesTable :
        (wm.email = email /\ ws.id = wm.workspace_id) => (ws.name # w /\ Str(ws.id) # w)

\* The identifier names none of the memberships the context carries
NamesNoneOf(ctx, w) ==
    \A i \in 1..Len(ctx.memberships) :
        ctx.memberships[i].workspace_name # w /\ Str(ctx.memberships[i].workspace_id) # w

HasActiveMembership(ctx) ==
    /\ ctx.memberships # <<>>
    /\ \E i \in 1..Len(ctx.memberships) : ctx.memberships[i] = ctx.active

\* The control database holds no membership for the principal
NoMemberships(email) == _get_user_memberships(email).memberships = <<>>

\* C16: with a control database name configured, every context handed to a
\* REST handler or an MCP tool (after an override or switch_workspace too)
\* has a non-empty membership list that contains its active membership, and
\* a principal without memberships is denied and gets no context.
C16_ContextHasMemberships ==
    control_db_name # "" =>
        /\ RestResolved =>
              /\ \A c \in rest.ctx : HasActiveMembership(c)
              /\ NoMemberships(rest.user_email) => (rest.ctx = {} /\ rest.status # 200)
        /\ mcp.pc \in {"forwarded", "done"} /\ mcp.status = 0 =>
              /\ \A c \in mcp.ctx \cup mcp.tool_ctx : HasActiveMembership(c)
              /\ (ToolCalled /\ NoMemberships(mcp.user)) =>
                    (mcp.tool_ctx = {} /\ mcp.code # "ok")

\* The same with the engine registry present, where the legacy branches of
\* C1 and C2 are not taken
C16_WithRegistry == engine_registry => C16_ContextHasMemberships

\* ------------------------------------------------------------------------
\* OAuth: oauth.py and the RefreshTokenUsage ledger of database.py
\* ------------------------------------------------------------------------
CODE_TTL == 600                     \* timedelta(minutes=10)
ACCESS_TTL == 3600                  \* timedelta(hours=1)
REFRESH_TTL == 2592000              \* timedelta(days=30)
LEDGER_RETENTION == 3024000         \* DATEADD(day, -35, GETUTCDATE())

\* Bounds of SpecOAuth
MaxCodes == 1          \* authorization codes minted
MaxFamilies == 2       \* token families started
MaxRefresh == 2        \* distinct refresh tokens handed out
MaxClock == 3110400    \* the clock stops after 36 days

\* The long clock step, 36 days: past the life of a code, of a refresh token
\* and of a ledger row
LongStep == 3110400

\* base64.urlsafe_b64encode(hashlib.sha256(code_verifier.encode()).digest()).decode().rstrip("=")
S256(code_verifier) == <<"S256", code_verifier>>

\* The empty code_challenge (the form field's default)
NoChallenge == <<>>

\* The registered clients: _oauth_clients_cache after init_oauth_clients
RegisteredClients ==
    [c \in {"c1", "c2"} |->
        [client_id |-> c,
         client_secret |-> Sha256(IF c = "c1" THEN "secret1" ELSE "secret2"),
         redirect_uris |-> {IF c = "c1" THEN "https://chatgpt.com/cb" ELSE "https://claude.ai/cb"}]]

\* jwt.encode of the refresh-token payload; equal payloads give equal tokens
RefreshJwt(sub, family, iat) ==
    [typ |-> "refresh", sub |-> sub, aud |-> None, family |-> family,
     iat |-> iat, exp |-> iat + REFRESH_TTL]

\* get_base_url(): the iss and aud of the access tokens
BaseUrl == "https://mi.example"

\* jwt.encode of the access-token payload of oauth.token
AccessJwt(sub, iat) ==
    [typ |-> "access", sub |-> sub, aud |-> BaseUrl, family |-> 0,
     iat |-> iat, exp |-> iat + ACCESS_TTL]

\* The access token issued in one response with the refresh token r
AccessOf(r) == AccessJwt(r.sub, r.iat)

\* A string that is not a JWT signed by this server
Garbage == [typ |-> "garbage", sub |-> None, aud |-> None, family |-> 0, iat |-> 0, exp |-> 0]

\* oauth._decode_jwt_with_rotation without audience: "ok", or the exception
decode_refresh(token, t) ==
    IF token.typ = "garbage" THEN "InvalidTokenError"
    ELSE IF token.exp <= t THEN "ExpiredSignatureError"
    ELSE IF token.aud # None THEN "InvalidTokenError"
    ELSE "ok"

\* database.consume_refresh_token, lines 694-702: INSERT INTO RefreshTokenUsage;
\* a primary-key violation means the hash is already there
LedgerInsert(rows, token_hash, family_id, client_id, t) ==
    IF \E r \in rows : r.token_hash = token_hash
    THEN [result |-> "False", rows |-> rows]
    ELSE [result |-> "True",
          rows |-> rows \cup {[token_hash |-> token_hash, family_id |-> family_id,
                               client_id |-> client_id, consumed_at |-> t]}]

\* How the application database behaves during one call: it answers, it
\* fails with a transient error on every attempt, or it fails otherwise
DbStates == {"up", "transient", "broken"}

\* database.consume_refresh_token under @retry_on_transient: result is "True",
\* "False", "error_dict" (retries exhausted on a transient fault) or "raise"
\* (a non-transient fault propagates); rows is the table afterwards
consume_refresh_token(rows, db, token_hash, family_id, client_id, t) ==
    LET kept == { r \in rows : ~(r.consumed_at < t - LEDGER_RETENTION) }
    IN  CASE db = "broken"    -> [result |-> "raise", rows |-> rows]
          [] db = "transient" -> [result |-> "error_dict", rows |-> rows]
          [] OTHER            -> LedgerInsert(kept, token_hash, family_id, client_id, t)

\* Python truthiness of consume_refresh_token's return value
TruthyResult(result) == result \in {"True", "error_dict"}

\* A form field that was not sent
Absent == [typ |-> "absent", sub |-> None, aud |-> None, family |-> 0, iat |-> 0, exp |-> 0]

\* The last response: the endpoint, the HTTP status, the authorization code
\* it is about (0 when it is about none), the code_verifier that came with
\* that code, and the kind of JWT an MCP request carried as its bearer
RespIdle == [op |-> None, status |-> 0, code |-> 0, code_verifier |-> None, bearer |-> None]

\* (client_id, client_secret) pairs a caller may send
Credentials == { <<"c1", "secret1">>, <<"c1", "wrong">>, <<"c2", "secret2">>, <<"cx", "wrong">> }
RedirectInputs == {None, "https://chatgpt.com/cb", "https://claude.ai/cb"}
VerifierInputs == {None, "v1", "v2"}

\* The forms POST /oauth/token may receive. For a code, the well-formed form
\* and the forms that differ from it in the credentials, the redirect_uri or
\* the verifier; code 0 is a missing or unknown code. For a refresh token,
\* the owner's credentials, another client's, and a wrong secret.
TokenRequests ==
    { [grant_type |-> "authorization_code", code |-> c, redirect_uri |-> u,
       client_id |-> cr[1], client_secret |-> cr[2], code_verifier |-> v,
       refresh_token |-> Absent] :
        c \in 1..MaxCodes,
        <<u, cr, v>> \in
            ({ <<u2, <<"c1", "secret1">>, "v1">> : u2 \in RedirectInputs }
             \cup { <<"https://chatgpt.com/cb", cr2, "v1">> : cr2 \in Credentials }
             \cup { <<"https://chatgpt.com/cb", <<"c1", "secret1">>, v2>> : v2 \in VerifierInputs }) }
    \cup
    { [grant_type |-> "authorization_code", code |-> 0,
       redirect_uri |-> "https://chatgpt.com/cb",
       client_id |-> "c1", client_secret |-> "secret1", code_verifier |-> "v1",
       refresh_token |-> Absent] }
    \cup
    { [grant_type |-> "refresh_token", code |-> 0, redirect_uri |-> None,
       client_id |-> cr[1], client_secret |-> cr[2], code_verifier |-> None,
       refresh_token |-> r] :
        cr \in Credentials \ {<<"cx", "wrong">>}, r \in issued \cup {Absent, Garbage} }
    \cup
    { [grant_type |-> "password", code |-> 0, redirect_uri |-> None,
       client_id |-> "c1", client_secret |-> "secret1", code_verifier |-> None,
       refresh_token |-> Absent] }

\* The database behaviours drawn for a token request: only the refresh_token
\* grant makes a database call
DbFor(req) == IF req.grant_type = "refresh_token" THEN DbStates ELSE {"up"}

\* oauth.token, lines 445-451: the client is known and its secret matches
client_authenticated(client_id, client_secret) ==
    /\ client_id \in DOMAIN oauth_clients_cache
    /\ oauth_clients_cache[client_id].client_secret = Sha256(client_secret)

\* Mutant of VerifierMatches: any verifier is taken
VerifierMatches_any(code_verifier, code_challenge) == TRUE

\* oauth.token, lines 478-482: verifier_hash == auth["code_challenge"]
VerifierMatches(code_verifier, code_challenge) == S256(code_verifier) = code_challenge

\* Mutant of consume_code: the exchanged code stays in the pending store
consume_code_keeps(pending, code) == pending

\* oauth.token, line 486: del pending_auth_codes[code]
consume_code(pending, code) == Drop(pending, code)

\* Mutant of family_claim: the rotated token starts a family of its own
family_claim_fresh(payload) == payload.family + 1

\* oauth.token, line 545: family_id = payload.get("family", "legacy"); every
\* refresh token this server signs carries the claim
family_claim(payload) == payload.family

\* Mutant of refused_code: a refused exchange uses the code up
refused_code_burns(pending, code) == Drop(pending, code)

\* oauth.token, lines 465-483: raise HTTPException(400, ...) for a client_id,
\* redirect_uri or code_verifier that does not fit; pending_auth_codes is
\* not touched before line 486
refused_code(pending, code) == pending

\* The outcome of oauth.token for one request: the status, the stores
\* afterwards, the refresh token of the issued pair ({} when none is issued),
\* whether a ledger row was inserted, whether a replay was detected, and the
\* authorization code the handler looked up (0 when it looked up none)
token_outcome(req, db) ==
    LET authenticated == client_authenticated(req.client_id, req.client_secret)
        out(st, pend, rows, pair, inserted) ==
            [status |-> st, pending |-> pend, rows |-> rows, pair |-> pair,
             inserted |-> inserted, replay |-> FALSE,
             code |-> IF authenticated /\ req.grant_type = "authorization_code"
                      THEN req.code ELSE 0]
        fail(st) == out(st, pending_auth_codes, ledger, {}, FALSE)
        refuse == out(400, refused_code(pending_auth_codes, req.code), ledger, {}, FALSE)
        auth == pending_auth_codes[req.code]
        r == req.refresh_token
        decoded == decode_refresh(r, utcnow)
        consumed == consume_refresh_token(ledger, db, Sha256(r), family_claim(r),
                                          req.client_id, utcnow)
    IN  IF ~authenticated THEN fail(401)
        ELSE IF req.grant_type = "authorization_code" THEN
            IF req.code \notin DOMAIN pending_auth_codes THEN fail(400)
            ELSE IF utcnow > auth.expires_at
                THEN out(400, Drop(pending_auth_codes, req.code), ledger, {}, FALSE)
            ELSE IF auth.client_id # req.client_id THEN refuse
            ELSE IF req.redirect_uri # None /\ auth.redirect_uri # req.redirect_uri THEN refuse
            ELSE IF req.code_verifier = None THEN refuse
            ELSE IF ~VerifierMatches(req.code_verifier, auth.code_challenge) THEN refuse
            ELSE out(200, consume_code(pending_auth_codes, req.code), ledger,
                     {RefreshJwt(req.client_id, next_family + 1, utcnow)}, FALSE)
        ELSE IF req.grant_type = "refresh_token" THEN
            IF r = Absent THEN fail(400)
            ELSE IF decoded # "ok" THEN fail(401)
            ELSE IF r.typ # "refresh" THEN fail(400)
            ELSE IF r.sub # req.client_id THEN fail(400)
            ELSE IF consumed.result = "raise" THEN fail(500)
            ELSE IF ~TruthyResult(consumed.result)
                THEN [out(401, pending_auth_codes, consumed.rows, {}, FALSE)
                        EXCEPT !.replay = TRUE]
            ELSE out(200, pending_auth_codes, consumed.rows,
                     {RefreshJwt(req.client_id, family_claim(r), utcnow)},
                     consumed.result = "True")
        ELSE fail(400)

\* POST /oauth/token
token(req, db) ==
    \E o \in {token_outcome(req, db)} :
        LET byCode == o.status = 200 /\ req.grant_type = "authorization_code"
            byRefresh == o.status = 200 /\ req.grant_type = "refresh_token"
            r == req.refresh_token
        IN  /\ byCode => next_family < MaxFamilies
            /\ Cardinality(issued \cup o.pair) <= MaxRefresh
            /\ pending_auth_codes' = o.pending
            /\ ledger' = o.rows
            /\ issued' = issued \cup o.pair
            /\ next_family' = IF byCode THEN next_family + 1 ELSE next_family
            /\ exchanged' = IF byCode THEN exchanged \cup {req.code} ELSE exchanged
            /\ redeemed' = IF byRefresh THEN redeemed \cup {r} ELSE redeemed
            /\ recorded' = IF o.inserted THEN recorded \cup {Sha256(r)} ELSE recorded
            /\ replayed' = IF o.replay THEN replayed \cup {r.family} ELSE replayed
            /\ resp' = [op |-> "token", status |-> o.status, code |-> o.code,
                        code_verifier |-> IF o.code # 0 THEN req.code_verifier ELSE None,
                        bearer |-> None]
            /\ UNCHANGED <<utcnow, oauth_clients_cache, next_code>>
            /\ UNCHANGED <<wsVars, libVars>>

\* oauth._validate_mcp_token: validate_client_token under @retry_on_transient;
\* the e-mail, None for an unknown token or an error dict, "raise" when a
\* non-transient fault propagates
_validate_mcp_token(tok, db) ==
    LET rows == validate_client_token(Sha256(tok))
    IN  CASE db = "broken"    -> "raise"
          [] db = "transient" -> None
          [] OTHER            -> IF tok # "" /\ rows # {}
                                 THEN (CHOOSE r \in rows : TRUE).client_email
                                 ELSE None

\* oauth._validate_authorize_params: 200 or the HTTPException's status
_validate_authorize_params(response_type, client_id, redirect_uri, code_challenge, code_challenge_method) ==
    IF client_id \notin DOMAIN oauth_clients_cache THEN 400
    ELSE IF redirect_uri \notin oauth_clients_cache[client_id].redirect_uris THEN 400
    ELSE IF response_type # "code" THEN 400
    ELSE IF code_challenge_method # "S256" THEN 400
    ELSE IF code_challenge = NoChallenge THEN 400
    ELSE 200

\* The consent forms POST /oauth/authorize may receive: the well-formed form
\* of client c1 and the forms that differ from it in one field
AuthorizeForm(response_type, client_id, redirect_uri, code_challenge, code_challenge_method, tok) ==
    [response_type |-> response_type, client_id |-> client_id,
     redirect_uri |-> redirect_uri, code_challenge |-> code_challenge,
     code_challenge_method |-> code_challenge_method, token |-> tok]

AuthorizeRequests ==
    { AuthorizeForm("code", "c1", "https://chatgpt.com/cb", S256("v1"), "S256", "tok_legacy"),
      AuthorizeForm("token", "c1", "https://chatgpt.com/cb", S256("v1"), "S256", "tok_legacy"),
      AuthorizeForm("code", "cx", "https://chatgpt.com/cb", S256("v1"), "S256", "tok_legacy"),
      AuthorizeForm("code", "c1", "https://claude.ai/cb", S256("v1"), "S256", "tok_legacy"),
      AuthorizeForm("code", "c1", "https://chatgpt.com/cb", NoChallenge, "S256", "tok_legacy"),
      AuthorizeForm("code", "c1", "https://chatgpt.com/cb", S256("v1"), "plain", "tok_legacy"),
      AuthorizeForm("code", "c1", "https://chatgpt.com/cb", S256("v1"), "S256", "tok_bad") }

\* POST /oauth/authorize: 302 with a fresh code, 200 for the consent page
\* rendered again, 400 for bad parameters
authorize_post(req, db) ==
    LET params == _validate_authorize_params(req.response_type, req.client_id,
                       req.redirect_uri, req.code_challenge, req.code_challenge_method)
        client_email == _validate_mcp_token(req.token, db)
        status == IF params # 200 THEN params
                  ELSE IF client_email = "raise" THEN 500
                  ELSE IF client_email = None THEN 200
                  ELSE 302
        auth_code == next_code + 1
    IN  /\ status = 302 => next_code < MaxCodes
        /\ pending_auth_codes' =
              IF status = 302
              THEN Put(pending_auth_codes, auth_code,
                       [client_id |-> req.client_id,
                        redirect_uri |-> req.redirect_uri,
                        scope |-> "mcp:read mcp:write",
                        code_challenge |-> req.code_challenge,
                        code_challenge_method |-> req.code_challenge_method,
                        expires_at |-> utcnow + CODE_TTL])
              ELSE pending_auth_codes
        /\ next_code' = IF status = 302 THEN auth_code ELSE next_code
        /\ resp' = [op |-> "authorize", status |-> status,
                    code |-> IF status = 302 THEN auth_code ELSE 0,
                    code_verifier |-> None, bearer |-> None]
        /\ UNCHANGED <<utcnow, oauth_clients_cache, next_family, ledger,
                       issued, exchanged, redeemed, recorded, replayed>>
        /\ UNCHANGED <<wsVars, libVars>>

\* Mutant of validate_oauth_token: every decodable token is taken
validate_oauth_token_any(tok, t) == IF tok.typ = "garbage" THEN None ELSE tok.sub

\* oauth.validate_oauth_token: the sub claim of the payload, None for None.
\* jwt.decode with audience= refuses a token without an aud claim.
validate_oauth_token(tok, t) ==
    IF tok.typ = "garbage" THEN None
    ELSE IF tok.exp <= t THEN None
    ELSE IF tok.aud # BaseUrl THEN None
    ELSE IF tok.typ = "refresh" THEN None
    ELSE tok.sub

\* main.mcp_auth_middleware for Authorization: Bearer <JWT>: the string is in
\* no token table, so validate_oauth_token decides; 0 is a forwarded request
mcp_bearer(tok) ==
    /\ resp' = [op |-> "mcp",
                status |-> IF validate_oauth_token(tok, utcnow) = None THEN 401 ELSE 0,
                code |-> 0, code_verifier |-> None, bearer |-> tok.typ]
    /\ UNCHANGED <<utcnow, oauth_clients_cache, pending_auth_codes, next_code,
                   next_family, ledger, issued, exchanged, redeemed, recorded, replayed>>
    /\ UNCHANGED <<wsVars, libVars>>

\* POST /oauth/revoke
revoke_token(tok, db) ==
    LET isRefresh == decode_refresh(tok, utcnow) = "ok" /\ tok.typ = "refresh"
        consumed == consume_refresh_token(ledger, db, Sha256(tok), tok.family,
                                          tok.sub, utcnow)
    IN  /\ ledger' = IF isRefresh THEN consumed.rows ELSE ledger
        /\ recorded' = IF isRefresh /\ consumed.result = "True"
                       THEN recorded \cup {Sha256(tok)} ELSE recorded
        /\ resp' = [op |-> "revoke",
                    status |-> IF isRefresh /\ consumed.result = "raise" THEN 500 ELSE 200,
                    code |-> 0, code_verifier |-> None, bearer |-> None]
        /\ UNCHANGED <<utcnow, oauth_clients_cache, pending_auth_codes, next_code,
                       next_family, issued, exchanged, redeemed, replayed>>
        /\ UNCHANGED <<wsVars, libVars>>

\* database.revoke_token_family under @retry_on_transient:
\* DELETE FROM RefreshTokenUsage WHERE FamilyId = ?
revoke_token_family(family_id, db) ==
    /\ ledger' = IF db = "up"
                 THEN { r \in ledger : r.family_id # family_id }
                 ELSE ledger
    /\ resp' = [op |-> "revoke_token_family", status |-> 0, code |-> 0,
                code_verifier |-> None, bearer |-> None]
    /\ UNCHANGED <<utcnow, oauth_clients_cache, pending_auth_codes, next_code,
                   next_family, issued, exchanged, redeemed, recorded, replayed>>
    /\ UNCHANGED <<wsVars, libVars>>

\* datetime.utcnow() advances by one long step, or by one second from the
\* start of a long step
ClockStep(d) ==
    /\ utcnow + d <= MaxClock
    /\ d = 1 => utcnow % LongStep = 0
    /\ utcnow' = utcnow + d
    /\ resp' = RespIdle
    /\ UNCHANGED <<oauth_clients_cache, pending_auth_codes, next_code, next_family,
                   ledger, issued, exchanged, redeemed, recorded, replayed>>
    /\ UNCHANGED <<wsVars, libVars>>

\* No library function was called
CallIdle == [fn |-> None]

\* A thread that has not called get_engine
WorkerIdle == [pc |-> "idle", database_name |-> None, result |-> 0]

\* EngineRegistry.__init__, and no thread started
RegQuiet ==
    /\ _engines = <<>>
    /\ _lock = 0
    /\ workers = [t \in 1..MaxThreads |-> WorkerIdle]
    /\ pools = {}

\* The OAuthClient table holds the clients the cache was loaded from and
\* nothing has been registered since
ClientsQuiet ==
    /\ oauth_client_store = RegisteredClients
    /\ next_client = 0

\* No exception (last_exception = None)
NoFault == [type |-> None, status |-> 0, codes |-> {}]

\* call_with_retry has not been called
RetryIdle ==
    [pc |-> "idle", max_retries |-> 0, attempt |-> 0, borrowed |-> 0, invoked |-> 0,
     slept |-> <<>>, exc |-> NoFault, result |-> None]

\* RateLimitMiddleware.__init__ (main.py:266-270), and no request so far
RateQuiet ==
    /\ _windows = << >>
    /\ _last_cleanup = 0
    /\ rate_lock = FALSE
    /\ waiters = << >>
    /\ monotonic = 0
    /\ forwarded = << >>
    /\ rate_resp = [status |-> 0, key |-> None, now |-> 0, remaining |-> 0, retry_after |-> 0]
    /\ arrivals = 0

\* A request that is not in validate_mcp_token
NotValidating ==
    [pc |-> "idle", token |-> None, email |-> None, hit |-> FALSE, after_revocation |-> FALSE]

\* No token revoked, no validation in flight
ValQuiet == revoked = {} /\ validating = [p \in 1..MaxValidations |-> NotValidating]

ExecQuiet == retry = RetryIdle /\ RateQuiet /\ ValQuiet /\ switched = {}

LibQuiet == call = CallIdle /\ RegQuiet /\ ClientsQuiet /\ ExecQuiet

OAuthQuiet ==
    /\ utcnow = 0
    /\ oauth_clients_cache = RegisteredClients
    /\ pending_auth_codes = <<>>
    /\ next_code = 0
    /\ next_family = 0
    /\ ledger = {}
    /\ issued = {}
    /\ resp = RespIdle
    /\ exchanged = {}
    /\ redeemed = {}
    /\ recorded = {}
    /\ replayed = {}

\* The server as deployed with a control database and the engine registry
\* built; the OAuth handlers read neither
OAuthInit ==
    /\ OAuthQuiet
    /\ LibQuiet
    /\ control_db_name = "mi-control"
    /\ azure_sql_server = "sql.example"
    /\ engine_registry = TRUE
    /\ phase = "serving"
    /\ control_up = TRUE
    /\ now = 0
    /\ rest = RestIdle
    /\ mcp = McpIdle
    /\ token_cache = <<>>
    /\ workspace_cache = <<>>

OAuthNext ==
    \/ \E req \in AuthorizeRequests, db \in DbStates : authorize_post(req, db)
    \/ \E req \in TokenRequests : \E db \in DbFor(req) : token(req, db)
    \/ \E tok \in issued \cup {AccessOf(r) : r \in issued} \cup {Garbage}, db \in DbStates :
          revoke_token(tok, db)
    \/ \E tok \in issued \cup {AccessOf(r) : r \in issued} \cup {Garbage} : mcp_bearer(tok)
    \/ \E f \in 1..MaxFamilies, db \in DbStates : revoke_token_family(f, db)
    \/ \E d \in {1, LongStep} : ClockStep(d)

WsInit == WsQuiet /\ OAuthQuiet /\ LibQuiet

SpecWs == WsInit /\ [][WsNext]_vars

SpecOAuth == OAuthInit /\ [][OAuthNext]_vars

\* ------------------------------------------------------------------------
\* Properties of the OAuth endpoints
\* ------------------------------------------------------------------------

\* C7: an authorization code is exchanged at most once: every token request
\* of an authenticated client that presents a code a token pair was already
\* issued for ends in 400, issues no token and starts no family. (resp.code
\* is the code such a request presented; every step writes resp.)
C7_CodeSingleUse ==
    [][( /\ resp'.op = "token"
         /\ resp'.code \in exchanged )
       => ( /\ resp'.status = 400
            /\ issued' = issued
            /\ next_family' = next_family
            /\ exchanged' = exchanged )]_vars

\* A code was exchanged, and the last response refuses a later exchange of it
C7_Witness ==
    /\ resp.op = "token" /\ resp.status = 400
    /\ resp.code \in exchanged
    /\ issued # {}

\* C8: for any refresh token r, at most one refresh_token grant presenting r
\* returns a token pair.
C8_RefreshRedeemedOnce ==
    [][\A req \in TokenRequests : \A db \in DbFor(req) :
          ( /\ req.grant_type = "refresh_token"
            /\ resp'.status = 200
            /\ token(req, db) )
          => req.refresh_token \notin redeemed]_vars

\* C9: once the hash of a refresh token was recorded in the ledger, no later
\* refresh_token grant presenting the token succeeds.
C9_RecordedHashStaysInvalid ==
    [][\A req \in TokenRequests : \A db \in DbFor(req) :
          ( /\ req.grant_type = "refresh_token"
            /\ Sha256(req.refresh_token) \in recorded
            /\ token(req, db) )
          => resp'.status # 200]_vars

\* C10: after a replay was detected in family f, no refresh token of family
\* f is redeemed, the latest unconsumed one included.
C10_ReplayRevokesFamily ==
    [][\A req \in TokenRequests : \A db \in DbFor(req) :
          ( /\ req.grant_type = "refresh_token"
            /\ req.refresh_token.family \in replayed
            /\ token(req, db) )
          => resp'.status # 200]_vars

\* The step was POST /oauth/token with an authorization code that was
\* pending and unexpired, from the client the code was issued to
CodePresented ==
    /\ resp'.op = "token"
    /\ resp'.code \in DOMAIN pending_auth_codes
    /\ utcnow <= pending_auth_codes[resp'.code].expires_at

\* C17: an authorization_code request is answered with tokens only if
\* base64url(SHA256(code_verifier)) is the challenge stored with the code; with
\* the verifier missing or not matching it ends in 400, issues no token,
\* starts no family and leaves the code pending.
C17_PkceVerified ==
    [][CodePresented =>
         LET stored == pending_auth_codes[resp'.code].code_challenge
             v == resp'.code_verifier
             matches == v # None /\ S256(v) = stored
         IN  /\ resp'.status = 200 => matches
             /\ ~matches => /\ resp'.status = 400
                            /\ issued' = issued
                            /\ next_family' = next_family
                            /\ pending_auth_codes' = pending_auth_codes]_vars

\* A request with the wrong verifier was refused and the code is still pending
C17_Witness ==
    /\ resp.op = "token" /\ resp.status = 400
    /\ resp.code \in DOMAIN pending_auth_codes
    /\ resp.code_verifier = "v2"
    /\ pending_auth_codes[resp.code].code_challenge = S256("v1")
    /\ issued = {}

\* C18: an authorization_code request is answered with tokens only if its
\* client id and its redirect URI are those stored with the code, and every
\* other request for that code ends in 400.
C18_CodeBoundToClientAndRedirect ==
    [][\A req \in TokenRequests :
          ( /\ req.grant_type = "authorization_code"
            /\ req.code \in DOMAIN pending_auth_codes
            /\ client_authenticated(req.client_id, req.client_secret)
            /\ token(req, "up") )
          => LET auth == pending_auth_codes[req.code]
                 bound == /\ auth.client_id = req.client_id
                          /\ auth.redirect_uri = req.redirect_uri
             IN  /\ resp'.status = 200 => bound
                 /\ ~bound => resp'.status = 400]_vars

\* main.validate_mcp_token, the validator of request authentication, accepts
\* the token in the present configuration (with its caches empty)
RequestAuthenticationAccepts(tok) ==
    validate_mcp_token(tok, <<>>, <<>>, now, control_db_name, engine_registry,
                       control_up).email # None

\* C19: /oauth/authorize adds a code to the pending store only for
\* response_type=code, method S256, a non-empty challenge, a redirect URI
\* registered to the client and a bearer token that request authentication
\* accepts; any other request leaves the pending store as it was.
C19_CodeMintedOnlyAfterConsent ==
    [][\A req \in AuthorizeRequests, db \in DbStates :
          authorize_post(req, db)
          => LET good == /\ req.response_type = "code"
                         /\ req.code_challenge_method = "S256"
                         /\ req.code_challenge # NoChallenge
                         /\ req.client_id \in DOMAIN oauth_clients_cache
                         /\ req.redirect_uri \in oauth_clients_cache[req.client_id].redirect_uris
                         /\ RequestAuthenticationAccepts(req.token)
             IN  /\ pending_auth_codes' # pending_auth_codes => good
                 /\ ~good => resp'.status # 302]_vars

\* ------------------------------------------------------------------------
\* permissions.py
\* ------------------------------------------------------------------------
Roles == {"viewer", "member", "chair"}
Operations == {"read", "create", "update", "delete", "manage_members", "manage_workspace"}
DataOperations == {"read", "create", "update", "delete"}

\* An entity dict: the keys it has and the value under created_by
Dict(keys, created_by) == [keys |-> keys, created_by |-> created_by]

\* entity.get('created_by')
GetCreatedBy(d) == IF "created_by" \in d.keys THEN d.created_by ELSE None

\* The entity argument: the empty set is None, else a set holding one dict
EntityInputs ==
    { {} } \cup
    { {d} : d \in { Dict({}, None), Dict({"title"}, None),
                    Dict({"created_by", "title"}, "user@example.com"),
                    Dict({"created_by", "title"}, "other@example.com") } }

\* The workspace of a context built by hand, as tests/test_permissions.py does
TestWorkspace(is_archived) ==
    [id |-> 1, name |-> "test", db_name |-> "test-db", is_default |-> TRUE,
     is_archived |-> is_archived]

\* A context with one membership, which is the active one
SingleContext(role, is_org_admin, is_archived) ==
    LET m == WorkspaceMembership(TestWorkspace(is_archived), role)
    IN  WorkspaceContext("user@example.com", is_org_admin, <<m>>, m)

ContextInputs ==
    { SingleContext(role, a, z) : role \in Roles, a \in BOOLEAN, z \in BOOLEAN }

\* Mutant of MemberEditsForeign: the ownership test is dropped
MemberEditsForeign_never(ctx, entity) == FALSE

\* permissions.check_permission, line 48:
\* role == 'member' and entity and entity.get('created_by') != ctx.user_email
MemberEditsForeign(ctx, entity) ==
    /\ ctx.active.role = "member"
    /\ entity # {}
    /\ \E d \in entity : d.keys # {} /\ GetCreatedBy(d) # ctx.user_email

\* permissions.check_permission: "allow" when it returns, "deny" when it
\* raises HTTPException(403)
check_permission(ctx, operation, entity) ==
    LET role == ctx.active.role
    IN  IF ctx.is_org_admin THEN "allow"
        ELSE IF ctx.active.is_archived /\ operation # "read" THEN "deny"
        ELSE IF operation = "read" THEN "allow"
        ELSE IF operation = "create"
             THEN IF role = "viewer" THEN "deny" ELSE "allow"
        ELSE IF operation = "update"
             THEN IF role = "viewer" THEN "deny"
                  ELSE IF MemberEditsForeign(ctx, entity) THEN "deny"
                  ELSE "allow"
        ELSE IF operation = "delete"
             THEN IF role \in {"viewer", "member"} THEN "deny" ELSE "allow"
        ELSE IF operation = "manage_members"
             THEN IF role # "chair" THEN "deny" ELSE "allow"
        ELSE IF operation = "manage_workspace" THEN "deny"
        ELSE "allow"

\* One call of check_permission
CheckPermission(ctx, operation, entity) ==
    /\ call' = [fn |-> "check_permission", ctx |-> ctx, operation |-> operation,
                entity |-> entity, result |-> check_permission(ctx, operation, entity)]
    /\ UNCHANGED <<wsVars, oauthVars, regVars, clientVars, execVars>>

LibInit ==
    /\ LibQuiet
    /\ WsQuiet
    /\ OAuthQuiet

LibNext ==
    \/ \E ctx \in ContextInputs, operation \in Operations, entity \in EntityInputs :
          CheckPermission(ctx, operation, entity)

SpecLib == LibInit /\ [][LibNext]_vars

\* ------------------------------------------------------------------------
\* oauth.register_client
\* ------------------------------------------------------------------------
\* oauth._DEFAULT_ALLOWED_REDIRECT_DOMAINS, each domain as its labels
AllowedRedirectDomains ==
    { <<"claude", "ai">>, <<"claude", "com">>, <<"chatgpt", "com">>,
      <<"openai", "com">>, <<"localhost">>, <<"127.0.0.1">> }

\* urlparse(uri).hostname or "", as the labels of the host name
Hostname(uri) ==
    CASE uri = "https://chatgpt.com/cb"             -> <<"chatgpt", "com">>
      [] uri = "https://claude.ai/cb"               -> <<"claude", "ai">>
      [] uri = "https://app.chatgpt.com/cb"         -> <<"app", "chatgpt", "com">>
      [] uri = "http://localhost:3000/cb"           -> <<"localhost">>
      [] uri = "https://evil.example/cb"            -> <<"evil", "example">>
      [] uri = "https://evilchatgpt.com/cb"         -> <<"evilchatgpt", "com">>
      [] uri = "https://chatgpt.com.evil.example/"  -> <<"chatgpt", "com", "evil", "example">>
      [] uri = "https://chatgpt.com@evil.example/"  -> <<"evil", "example">>
      [] OTHER                                      -> <<>>

\* hostname.endswith(f".{domain}")
EndsWithDot(hostname, domain) ==
    /\ Len(hostname) > Len(domain)
    /\ SubSeq(hostname, Len(hostname) - Len(domain) + 1, Len(hostname)) = domain

\* Mutant of _validate_redirect_uri: every URI is taken
_validate_redirect_uri_any(uri) == TRUE

\* oauth._validate_redirect_uri
_validate_redirect_uri(uri) ==
    \E domain \in AllowedRedirectDomains :
        Hostname(uri) = domain \/ EndsWithDot(Hostname(uri), domain)

\* str(uuid.uuid4()) of the n-th registration
ClientId(n) == CASE n = 1 -> "c3" [] n = 2 -> "c4" [] n = 3 -> "c5" [] OTHER -> "c6"

\* secrets.token_urlsafe(32) of the n-th registration
ClientSecret(n) == CASE n = 1 -> "secret3" [] n = 2 -> "secret4" [] n = 3 -> "secret5" [] OTHER -> "secret6"

\* The redirect_uris lists a registration may carry
RegistrationRequests ==
    { <<>>,
      <<"https://chatgpt.com/cb">>,
      <<"https://app.chatgpt.com/cb">>,
      <<"https://chatgpt.com/cb", "http://localhost:3000/cb">>,
      <<"https://chatgpt.com/cb", "https://evil.example/cb">>,
      <<"https://evil.example/cb", "https://claude.ai/cb">>,
      <<"https://evilchatgpt.com/cb">>,
      <<"https://chatgpt.com.evil.example/">>,
      <<"https://chatgpt.com@evil.example/">>,
      <<"not a uri">> }

\* POST /oauth/register.  save_oauth_client runs under @retry_on_transient:
\* a transient fault ends in an error dict that register_client does not look
\* at, any other fault propagates.  redirect_uris is kept as the set of the
\* list's elements (the program only tests membership).
register_client(redirect_uris, db) ==
    LET rejected == { i \in 1..Len(redirect_uris) : ~_validate_redirect_uri(redirect_uris[i]) }
        client_id == ClientId(next_client + 1)
        client_data == [client_id |-> client_id,
                        client_secret |-> Sha256(ClientSecret(next_client + 1)),
                        redirect_uris |-> { redirect_uris[i] : i \in 1..Len(redirect_uris) }]
        status == IF rejected # {} THEN 400
                  ELSE IF db = "broken" THEN 500
                  ELSE 200
    IN  /\ rejected = {} => next_client < MaxClients
        /\ next_client' = IF rejected = {} THEN next_client + 1 ELSE next_client
        /\ oauth_client_store' = IF rejected = {} /\ db = "up"
                                 THEN Put(oauth_client_store, client_id, client_data)
                                 ELSE oauth_client_store
        /\ oauth_clients_cache' = IF status = 200
                                  THEN Put(oauth_clients_cache, client_id, client_data)
                                  ELSE oauth_clients_cache
        /\ resp' = [op |-> "register", status |-> status, code |-> 0,
                    code_verifier |-> None, bearer |-> None]
        /\ UNCHANGED <<utcnow, pending_auth_codes, next_code, next_family, ledger,
                       issued, exchanged, redeemed, recorded, replayed>>
        /\ UNCHANGED <<wsVars, call, regVars, execVars>>

\* The deployment of SpecOAuth, before any request
RegisterInit == OAuthInit

RegisterNext ==
    \/ \E redirect_uris \in RegistrationRequests, db \in DbStates :
          register_client(redirect_uris, db)

SpecRegister == RegisterInit /\ [][RegisterNext]_vars

\* ------------------------------------------------------------------------
\* database.call_with_retry and database.get_db_for
\* ------------------------------------------------------------------------
TRANSIENT_SQL_ERRORS ==
    {"08S01", "08001", "40613", "40197", "40501", "49918", "49919", "49920",
     "4060", "40001", "10054", "10053", "233"}

MAX_RETRIES == 3
BASE_DELAY == 500       \* 0.5 s, in milliseconds
MAX_DELAY == 10000      \* 10.0 s, in milliseconds

\* An exception: its class, the status of an HTTPException, and the members of
\* TRANSIENT_SQL_ERRORS that occur in str(exception)
Fault(type, status, codes) == [type |-> type, status |-> status, codes |-> codes]

\* Faults of the store: database paused, and an unknown table
StoreFaults == { Fault("pyodbc.Error", 0, {"40613"}), Fault("pyodbc.Error", 0, {}) }

\* Exceptions of the wrapped function: the store's, HTTPException(403,
\* "Viewers cannot create items"), and HTTPException(403, "Workspace 'Room 233'
\* is archived (read-only)")
FuncFaults ==
    StoreFaults \cup { Fault("HTTPException", 403, {}), Fault("HTTPException", 403, {"233"}) }

\* Mutant of is_transient_error: nothing is transient
is_transient_error_never(exception) == FALSE

\* database.is_transient_error: any(code in str(exception) for code in TRANSIENT_SQL_ERRORS)
is_transient_error(exception) == exception.codes \cap TRANSIENT_SQL_ERRORS # {}

Pow2(n) == IF n = 0 THEN 1 ELSE IF n = 1 THEN 2 ELSE IF n = 2 THEN 4 ELSE IF n = 3 THEN 8 ELSE IF n = 4 THEN 16 ELSE IF n = 5 THEN 32 ELSE IF n = 6 THEN 64 ELSE 128

\* call_with_retry, line 195: min(base_delay * (2 ** attempt), max_delay)
Delay(attempt) ==
    IF BASE_DELAY * Pow2(attempt) < MAX_DELAY THEN BASE_DELAY * Pow2(attempt) ELSE MAX_DELAY

\* Mutant of LastAttempt: one attempt fewer
LastAttempt_early(attempt, max_retries) == attempt >= max_retries - 1

\* call_with_retry, line 185: if attempt == max_retries
LastAttempt(attempt, max_retries) == attempt = max_retries

\* The max_retries a caller passes: the default, none, and a long budget
RetryBudgets == {MAX_RETRIES, 0, LongBudget}

\* call_with_retry is entered: for attempt in range(max_retries + 1)
CallWithRetry(max_retries) ==
    /\ retry.pc = "idle"
    /\ retry' = [retry EXCEPT !.pc = "acquire", !.max_retries = max_retries]
    /\ UNCHANGED <<wsVars, oauthVars, call, regVars, clientVars, rateVars, valVars, switched>>

\* get_db_for, line 290: conn = engine.raw_connection(); outcome is "ok" or
\* the exception raised, which leaves get_db_for before anything is borrowed
RawConnection(outcome) ==
    /\ retry.pc = "acquire"
    /\ retry' = IF outcome = NoFault
                THEN [retry EXCEPT !.pc = "cursor", !.borrowed = @ + 1, !.exc = NoFault]
                ELSE [retry EXCEPT !.pc = "caught", !.exc = outcome]
    /\ UNCHANGED <<wsVars, oauthVars, call, regVars, clientVars, rateVars, valVars, switched>>

\* get_db_for, line 291: cursor = conn.cursor(), before the try statement: an
\* exception here skips the finally clause
Cursor(outcome) ==
    /\ retry.pc = "cursor"
    /\ retry' = IF outcome = NoFault
                THEN [retry EXCEPT !.pc = "body"]
                ELSE [retry EXCEPT !.pc = "caught", !.exc = outcome]
    /\ UNCHANGED <<wsVars, oauthVars, call, regVars, clientVars, rateVars, valVars, switched>>

\* call_with_retry, line 180: func(cursor, *args, **kwargs); on an exception
\* get_db_for rolls back and re-raises (lines 295-297)
InvokeFunc(outcome) ==
    /\ retry.pc = "body"
    /\ retry' = IF outcome = NoFault
                THEN [retry EXCEPT !.pc = "commit", !.invoked = @ + 1]
                ELSE [retry EXCEPT !.pc = "finally", !.invoked = @ + 1, !.exc = outcome]
    /\ UNCHANGED <<wsVars, oauthVars, call, regVars, clientVars, rateVars, valVars, switched>>

\* get_db_for, line 294: conn.commit() after the yield; on an exception
\* get_db_for rolls back and re-raises
Commit(outcome) ==
    /\ retry.pc = "commit"
    /\ retry' = [retry EXCEPT !.pc = "finally", !.exc = outcome]
    /\ UNCHANGED <<wsVars, oauthVars, call, regVars, clientVars, rateVars, valVars, switched>>

\* get_db_for, lines 298-300: cursor.close(); conn.close(); then the return
\* of line 180 or the exception reaches the except clause of call_with_retry
Finally ==
    /\ retry.pc = "finally"
    /\ retry' = IF retry.exc = NoFault
                THEN [retry EXCEPT !.pc = "done", !.borrowed = @ - 1, !.result = "value"]
                ELSE [retry EXCEPT !.pc = "caught", !.borrowed = @ - 1]
    /\ UNCHANGED <<wsVars, oauthVars, call, regVars, clientVars, rateVars, valVars, switched>>

\* call_with_retry, lines 181-201: except Exception as e
Except ==
    /\ retry.pc = "caught"
    /\ retry' = IF ~is_transient_error(retry.exc)
                THEN [retry EXCEPT !.pc = "done", !.result = "raise"]
                ELSE IF LastAttempt(retry.attempt, retry.max_retries)
                THEN [retry EXCEPT !.pc = "done", !.result = "DATABASE_UNAVAILABLE"]
                ELSE [retry EXCEPT !.pc = "acquire", !.attempt = @ + 1,
                                   !.slept = Append(@, Delay(retry.attempt))]
    /\ UNCHANGED <<wsVars, oauthVars, call, regVars, clientVars, rateVars, valVars, switched>>

\* The deployment of SpecOAuth, before any call
RetryInit == OAuthInit

RetryNext ==
    \/ \E max_retries \in RetryBudgets : CallWithRetry(max_retries)
    \/ \E outcome \in StoreFaults \cup {NoFault} : RawConnection(outcome)
    \/ \E outcome \in StoreFaults \cup {NoFault} : Cursor(outcome)
    \/ \E outcome \in FuncFaults \cup {NoFault} : InvokeFunc(outcome)
    \/ \E outcome \in StoreFaults \cup {NoFault} : Commit(outcome)
    \/ Finally
    \/ Except

SpecRetry == RetryInit /\ [][RetryNext]_vars

\* ------------------------------------------------------------------------
\* MCP sessions that switch workspace
\* ------------------------------------------------------------------------
\* The deployment of SpecOAuth: workspace mode with the engine registry
SwitchInit == OAuthInit

SwitchNext ==
    \/ \E tok \in {"tok_ua", "tok_uc"} : mcp_auth_middleware("bearer", tok)
    \/ \E w \in OverrideInputs : McpToolCall(w)
    \/ \E w \in OverrideInputs : SwitchObserved(w)
    \/ ControlStoreFlip
    \/ Tick

SpecSwitch == SwitchInit /\ [][SwitchNext]_vars

\* ------------------------------------------------------------------------
\* main.validate_mcp_token step by step, against a revocation in the store
\* ------------------------------------------------------------------------
\* Mutant of CacheHit: an entry is served whatever its age
CacheHit_stale(cache, token_hash, t) == token_hash \in DOMAIN cache

\* validate_mcp_token, lines 116-117: cached and cached["expires_cache"] > now
CacheHit(cache, token_hash, t) ==
    token_hash \in DOMAIN cache /\ cache[token_hash].expires_cache > t

\* An unexpired entry for the hash is in the token cache
Cached(token_hash) ==
    token_hash \in DOMAIN token_cache /\ token_cache[token_hash].expires_cache > now

\* The tokens presented; both are in the control store's tokens table
ValidatedTokens == {"tok_ua", "tok_uc"}

\* validate_mcp_token, lines 111-123: the hash and the clock are taken and,
\* under the lock, a fresh entry is returned, otherwise the expired are evicted
ValidateCacheCheck(p, tok) ==
    /\ validating[p].pc = "idle"
    /\ \E token_hash \in {Sha256(tok)} :
        \E began \in {[NotValidating EXCEPT !.token = tok,
                         !.after_revocation = (token_hash \in revoked /\ ~Cached(token_hash))]} :
          IF CacheHit(token_cache, token_hash, now)
          THEN /\ validating' = [validating EXCEPT ![p] =
                     [began EXCEPT !.pc = "done", !.hit = TRUE,
                                   !.email = token_cache[token_hash].email]]
               /\ UNCHANGED token_cache
          ELSE /\ validating' = [validating EXCEPT ![p] = [began EXCEPT !.pc = "lookup"]]
               /\ token_cache' = [k \in {k \in DOMAIN token_cache : ~(token_cache[k].expires_cache <= now)}
                                    |-> token_cache[k]]
    /\ UNCHANGED <<control_db_name, azure_sql_server, engine_registry, phase,
                   control_up, now, rest, mcp, workspace_cache>>
    /\ UNCHANGED <<oauthVars, call, regVars, clientVars, retry, rateVars, revoked, switched>>

\* validate_mcp_token, lines 125-179: the store is asked; a revoked token has
\* no row with is_active = 1. A store failure returns None at once (line 134);
\* a result pre-caches the workspace context
ValidateLookup(p) ==
    /\ validating[p].pc = "lookup"
    /\ \E v \in {validate_mcp_token(validating[p].token, << >>, workspace_cache, now,
                                     control_db_name, engine_registry, control_up)} :
          IF v.lookup_failed
          THEN /\ validating' = [validating EXCEPT ![p].pc = "done", ![p].email = None]
               /\ UNCHANGED workspace_cache
          ELSE IF Sha256(validating[p].token) \in revoked
          THEN /\ validating' = [validating EXCEPT ![p].pc = "store", ![p].email = None]
               /\ UNCHANGED workspace_cache
          ELSE /\ validating' = [validating EXCEPT ![p].pc = "store", ![p].email = v.email]
               /\ workspace_cache' = v.wcache
    /\ UNCHANGED <<control_db_name, azure_sql_server, engine_registry, phase,
                   control_up, now, rest, mcp, token_cache>>
    /\ UNCHANGED <<oauthVars, call, regVars, clientVars, retry, rateVars, revoked, switched>>

\* Mutant of CacheFull: the cache is full one entry later
CacheFull_late(cache) == Cardinality(DOMAIN cache) > TOKEN_CACHE_MAX_SIZE

\* validate_mcp_token, line 183: len(_token_cache) >= TOKEN_CACHE_MAX_SIZE
CacheFull(cache) == Cardinality(DOMAIN cache) >= TOKEN_CACHE_MAX_SIZE

\* validate_mcp_token, lines 182-193, the block under the lock: the cache
\* after an email (or None) has been found for the hash at time t
CacheStore(cache, token_hash, email, t) ==
    IF email # None
    THEN Put(IF CacheFull(cache) THEN Drop(cache, OldestTokenKey(cache)) ELSE cache,
             token_hash, [email |-> email, expires_cache |-> t + TOKEN_CACHE_TTL])
    ELSE Drop(cache, token_hash)

\* validate_mcp_token, lines 181-194: under the lock the email is cached for
\* TOKEN_CACHE_TTL, the oldest entry making room; an invalid token's entry is
\* removed
ValidateCacheStore(p) ==
    /\ validating[p].pc = "store"
    /\ validating' = [validating EXCEPT ![p].pc = "done"]
    /\ token_cache' = CacheStore(token_cache, Sha256(validating[p].token), validating[p].email, now)
    /\ UNCHANGED <<control_db_name, azure_sql_server, engine_registry, phase,
                   control_up, now, rest, mcp, workspace_cache>>
    /\ UNCHANGED <<oauthVars, call, regVars, clientVars, retry, rateVars, revoked, switched>>

\* validate_mcp_token has returned to the middleware
ValidateReturn(p) ==
    /\ validating[p].pc = "done"
    /\ validating' = [validating EXCEPT ![p] = NotValidating]
    /\ UNCHANGED <<wsVars, oauthVars, call, regVars, clientVars, retry, rateVars, revoked, switched>>

\* manage_tokens.cmd_revoke: UPDATE tokens SET is_active = 0, in a process of
\* its own, at any moment
RevokeInStore(tok) ==
    /\ Sha256(tok) \notin revoked
    /\ revoked' = revoked \cup {Sha256(tok)}
    /\ UNCHANGED <<wsVars, oauthVars, call, regVars, clientVars, retry, rateVars, validating, switched>>

\* The deployment of SpecOAuth, nothing cached, nothing revoked
ValidateInit == OAuthInit

ValidateNext ==
    \/ \E p \in 1..MaxValidations, tok \in ValidatedTokens : ValidateCacheCheck(p, tok)
    \/ \E p \in 1..MaxValidations : ValidateLookup(p)
    \/ \E p \in 1..MaxValidations : ValidateCacheStore(p)
    \/ \E p \in 1..MaxValidations : ValidateReturn(p)
    \/ \E tok \in ValidatedTokens : RevokeInStore(tok)
    \/ ControlStoreFlip
    \/ Tick

SpecValidate == ValidateInit /\ [][ValidateNext]_vars

\* ------------------------------------------------------------------------
\* The token cache at its maximum size
\* ------------------------------------------------------------------------
\* The service tokens lo..hi are validated one after the other at time t,
\* each found in the store: the cache afterwards
RECURSIVE ValidatedInTurn(_, _, _, _)
ValidatedInTurn(cache, lo, hi, t) ==
    IF lo > hi \/ Cardinality(DOMAIN cache) > TOKEN_CACHE_MAX_SIZE THEN cache
    ELSE IF lo = hi THEN CacheStore(cache, <<"sha256", "svc", lo>>, "svc", t)
    ELSE ValidatedInTurn(ValidatedInTurn(cache, lo, (lo + hi) \div 2, t), ((lo + hi) \div 2) + 1, hi, t)

\* Other clients fill a cold cache up to its maximum: each call of
\* validate_mcp_token runs to its end before the next
WarmCache ==
    /\ token_cache = << >>
    /\ \A p \in 1..MaxValidations : validating[p].pc = "idle"
    /\ token_cache' = ValidatedInTurn(token_cache, 1, TOKEN_CACHE_MAX_SIZE, now)
    /\ UNCHANGED <<control_db_name, azure_sql_server, engine_registry, phase,
                   control_up, now, rest, mcp, workspace_cache>>
    /\ UNCHANGED <<oauthVars, call, regVars, clientVars, retry, rateVars, valVars, switched>>

\* time.time() advances by a part of the cache's TTL
ShortTick ==
    /\ now + ShortStep <= MaxNow
    /\ now' = now + ShortStep
    /\ UNCHANGED <<control_db_name, azure_sql_server, engine_registry, phase,
                   control_up, rest, mcp, token_cache, workspace_cache>>
    /\ UNCHANGED <<oauthVars, libVars>>

\* The deployment of SpecOAuth, the cache empty
CacheInit == OAuthInit

CacheNext ==
    \/ WarmCache
    \/ \E p \in 1..MaxValidations : ValidateCacheCheck(p, "tok_ua")
    \/ \E p \in 1..MaxValidations : ValidateLookup(p)
    \/ \E p \in 1..MaxValidations : ValidateCacheStore(p)
    \/ RevokeInStore("tok_ua")
    \/ ShortTick

SpecCache == CacheInit /\ [][CacheNext]_vars

\* ------------------------------------------------------------------------
\* main.RateLimitMiddleware
\* ------------------------------------------------------------------------
\* RateLimitMiddleware.TIERS: tier -> (max_requests, window_seconds)
TIERS == [mcp |-> <<120, 60>>, oauth |-> <<20, 60>>, api |-> <<60, 60>>]

CLEANUP_INTERVAL == 300

\* max(w for _, w in self.TIERS.values())
MaxWindow ==
    CHOOSE w \in {TIERS[t][2] : t \in DOMAIN TIERS} : \A t \in DOMAIN TIERS : TIERS[t][2] <= w

\* RateLimitMiddleware._classify: the tier of a path, None when exempt
_classify(path) ==
    CASE path \in {"/health", "/.well-known/oauth-authorization-server"} -> None
      [] path \in {"/mcp", "/sse", "/messages"} -> "mcp"
      [] path \in {"/oauth/token", "/oauth/authorize"} -> "oauth"
      [] path \in {"/api/meetings"} -> "api"
      [] OTHER -> None

\* RateLimitMiddleware._get_client_key: the token's hash for the mcp tier
\* when a token is presented, otherwise the tier and the client address
_get_client_key(req, tier) ==
    IF tier = "mcp" /\ req.token # ""
    THEN <<"mcp", "sha256", req.token>>
    ELSE <<tier, "ip", req.client>>

\* The requests: two tiers, and an exempt path
RateRequests ==
    { [path |-> "/oauth/token", token |-> "", client |-> "10.0.0.1"],
      [path |-> "/mcp", token |-> "mi-token-a", client |-> "10.0.0.1"],
      [path |-> "/health", token |-> "", client |-> "10.0.0.1"] }

\* while timestamps and timestamps[0] < cutoff: timestamps.pop(0)
\* (the list from its first entry that is not before the cutoff)
PopStale(timestamps, cutoff) ==
    LET fresh == {i \in 1..Len(timestamps) : timestamps[i] >= cutoff}
    IN  IF fresh = {} THEN << >>
        ELSE SubSeq(timestamps, CHOOSE i \in fresh : \A j \in fresh : i <= j, Len(timestamps))

\* Mutant of CapReached: one request more is let through
CapReached_late(timestamps, max_requests) == Len(timestamps) > max_requests

\* __call__, line 328: if len(timestamps) >= max_requests
CapReached(timestamps, max_requests) == Len(timestamps) >= max_requests

\* The windows of w, or the empty list the code creates for a new key
WindowOf(w, key) == IF key \in DOMAIN w THEN w[key] ELSE << >>

\* w with the list of key replaced
WithWindow(w, key, timestamps) ==
    [k \in DOMAIN w \cup {key} |-> IF k = key THEN timestamps ELSE w[k]]

\* __call__, lines 351-356: every CLEANUP_INTERVAL seconds the keys are dropped
\* whose list is empty or ends before now - max_window
Cleanup(w, last_cleanup, mono) ==
    IF mono - last_cleanup > CLEANUP_INTERVAL
    THEN [windows |-> [k \in {k \in DOMAIN w : ~(w[k] = << >> \/ w[k][Len(w[k])] < mono - MaxWindow)} |-> w[k]],
          last_cleanup |-> mono, status |-> 0, remaining |-> 0]
    ELSE [windows |-> w, last_cleanup |-> last_cleanup, status |-> 0, remaining |-> 0]

\* __call__, lines 328-356, with the pruned list of the key: 429 when the cap
\* is reached, otherwise the timestamp is appended and the cleanup may run
Decide(s, key, mono, timestamps, max_requests) ==
    IF CapReached(timestamps, max_requests)
    THEN [windows |-> WithWindow(s.windows, key, timestamps),
          last_cleanup |-> s.last_cleanup, status |-> 429, remaining |-> 0]
    ELSE [Cleanup(WithWindow(s.windows, key, Append(timestamps, mono)), s.last_cleanup, mono)
            EXCEPT !.status = 0, !.remaining = max_requests - (Len(timestamps) + 1)]

\* __call__, lines 319-356, the block under the lock for one request: the
\* windows and the cleanup time afterwards, the status (429, or 0 for a
\* request that goes on to the app) and the remaining count
Admission(s, key, tier, mono) ==
    Decide(s, key, mono, PopStale(WindowOf(s.windows, key), mono - TIERS[tier][2]), TIERS[tier][1])

\* Mutant of RetryAfter: the second added is left out
RetryAfter_short(timestamps, cutoff) == timestamps[1] - cutoff

\* __call__, line 329: retry_after = int(timestamps[0] - cutoff) + 1, with
\* the clock read in whole seconds
RetryAfter(timestamps, cutoff) == (timestamps[1] - cutoff) + 1

\* The limiter's fields as Admission takes them
Limiter == [windows |-> _windows, last_cleanup |-> _last_cleanup, status |-> 0, remaining |-> 0]

\* The block under the lock is run for the request with timestamp now; a
\* 429 is sent while the lock is held (line 344: await response(...) inside
\* `async with self._lock`), a request let through reaches the app
UnderLock(req, mono) ==
    \E tier \in {_classify(req.path)} : \E key \in {_get_client_key(req, tier)} :
    \E a \in {Admission(Limiter, key, tier, mono)} :
        /\ _windows' = a.windows
        /\ _last_cleanup' = a.last_cleanup
        /\ rate_lock' = (a.status = 429)
        /\ forwarded' = IF a.status = 429 THEN forwarded
                        ELSE WithWindow(forwarded, key, Append(WindowOf(forwarded, key), mono))
        /\ rate_resp' = [status |-> a.status, key |-> key, now |-> mono, remaining |-> a.remaining,
                         retry_after |-> IF a.status = 429
                                         THEN RetryAfter(a.windows[key], mono - TIERS[tier][2])
                                         ELSE 0]

\* __call__ for one request: an exempt path goes to the app at once; otherwise
\* now is read and the lock is taken, or waited for behind the earlier waiters
RateLimitCall(req) ==
    /\ arrivals < MaxArrivals
    /\ arrivals' = arrivals + 1
    /\ IF _classify(req.path) = None
       THEN /\ rate_resp' = [status |-> 0, key |-> None, now |-> monotonic, remaining |-> 0,
                              retry_after |-> 0]
            /\ UNCHANGED <<_windows, _last_cleanup, rate_lock, waiters, forwarded>>
       ELSE IF rate_lock \/ waiters # << >>
       THEN /\ Len(waiters) < MaxWaiters
            /\ waiters' = Append(waiters, [req |-> req, now |-> monotonic])
            /\ UNCHANGED <<_windows, _last_cleanup, rate_lock, forwarded, rate_resp>>
       ELSE /\ UnderLock(req, monotonic)
            /\ UNCHANGED waiters
    /\ UNCHANGED <<wsVars, oauthVars, call, regVars, clientVars, retry, valVars, switched, monotonic>>

\* The lock is free and the first waiter is resumed with the now it read on
\* arrival (asyncio.Lock wakes its waiters in order)
ResumeWaiter ==
    /\ ~rate_lock
    /\ waiters # << >>
    /\ UnderLock(Head(waiters).req, Head(waiters).now)
    /\ waiters' = Tail(waiters)
    /\ UNCHANGED <<wsVars, oauthVars, call, regVars, clientVars, retry, valVars, switched, monotonic, arrivals>>

\* The 429 response has been sent: `async with self._lock` ends
Sent429 ==
    /\ rate_lock
    /\ rate_lock' = FALSE
    /\ UNCHANGED <<_windows, _last_cleanup, waiters, forwarded, rate_resp, arrivals>>
    /\ UNCHANGED <<wsVars, oauthVars, call, regVars, clientVars, retry, valVars, switched, monotonic>>

RECURSIVE Repeated(_, _, _, _, _)
\* n requests of one key, one after the other at the same clock reading,
\* up to the first one refused: the windows and the cleanup time afterwards
Repeated(n, s, key, tier, mono) ==
    IF n = 0 \/ s.status = 429 THEN s
    ELSE IF n = 1 THEN Admission(s, key, tier, mono)
    ELSE Repeated(n - (n \div 2), Repeated(n \div 2, s, key, tier, mono), key, tier, mono)

\* Sequence of n copies of x
Copies(n, x) == [i \in 1..n |-> x]

\* A client's first requests: one short of the tier's cap, one after the
\* other while nothing else is in flight; each runs __call__ to its end
FirstRequests(req) ==
    \E tier \in {_classify(req.path)} :
        /\ tier # None
        /\ ~rate_lock /\ waiters = << >>
        /\ _get_client_key(req, tier) \notin DOMAIN forwarded
        /\ \E key \in {_get_client_key(req, tier)} : \E n \in {TIERS[tier][1] - 1} :
           \E r \in {Repeated(n, Limiter, key, tier, monotonic)} :
              /\ _windows' = r.windows
              /\ _last_cleanup' = r.last_cleanup
              /\ forwarded' = WithWindow(forwarded, key, Copies(n, monotonic))
              /\ rate_resp' = [status |-> 0, key |-> key, now |-> monotonic, remaining |-> 1,
                               retry_after |-> 0]
        /\ UNCHANGED <<rate_lock, waiters, arrivals>>
        /\ UNCHANGED <<wsVars, oauthVars, call, regVars, clientVars, retry, valVars, switched, monotonic>>

\* The clock readings that matter to one window: its start, its last second,
\* the first second after it, and past the cleanup interval
Instants == {0, MaxWindow, MaxWindow + 1, CLEANUP_INTERVAL + 1}

\* time.monotonic() advances
MonotonicAdvance(t) ==
    /\ t > monotonic
    /\ monotonic' = t
    /\ UNCHANGED <<_windows, _last_cleanup, rate_lock, waiters, forwarded, rate_resp, arrivals>>
    /\ UNCHANGED <<wsVars, oauthVars, call, regVars, clientVars, retry, valVars, switched>>

\* The deployment of SpecOAuth, the limiter just constructed
RateInit == OAuthInit

RateNext ==
    \/ \E req \in RateRequests : RateLimitCall(req)
    \/ \E req \in RateRequests : FirstRequests(req)
    \/ ResumeWaiter
    \/ Sent429
    \/ \E t \in Instants : MonotonicAdvance(t)

SpecRate == RateInit /\ [][RateNext]_vars

\* ------------------------------------------------------------------------
\* database.EngineRegistry
\* ------------------------------------------------------------------------
DatabaseNames == {"db_a", "db_b"}

\* Mutant of NeedsCreate: the test under the lock is dropped
NeedsCreate_always(engines, database_name) == TRUE

\* EngineRegistry.get_engine, line 223: if database_name not in self._engines
NeedsCreate(engines, database_name) == database_name \notin DOMAIN engines

\* get_engine, lines 220-221: the test outside the lock
GetEngineFast(t, database_name) ==
    /\ workers[t].pc = "idle"
    /\ workers' = [workers EXCEPT ![t] =
          IF database_name \in DOMAIN _engines
          THEN [pc |-> "done", database_name |-> database_name,
                result |-> _engines[database_name]]
          ELSE [pc |-> "acquire", database_name |-> database_name, result |-> 0]]
    /\ UNCHANGED <<_engines, _lock, pools>>
    /\ UNCHANGED <<wsVars, oauthVars, call, clientVars, execVars>>

\* get_engine, line 222: with self._lock
GetEngineAcquire(t) ==
    /\ workers[t].pc = "acquire"
    /\ _lock = 0
    /\ _lock' = t
    /\ workers' = [workers EXCEPT ![t].pc = "locked"]
    /\ UNCHANGED <<_engines, pools>>
    /\ UNCHANGED <<wsVars, oauthVars, call, clientVars, execVars>>

\* get_engine, lines 223-224: the test under the lock and _create_engine
GetEngineCreate(t) ==
    LET database_name == workers[t].database_name
        engine == Cardinality(pools) + 1
        create == NeedsCreate(_engines, database_name)
    IN  /\ workers[t].pc = "locked"
        /\ _engines' = IF create THEN Put(_engines, database_name, engine) ELSE _engines
        /\ pools' = IF create
                    THEN pools \cup {[engine |-> engine, database_name |-> database_name]}
                    ELSE pools
        /\ workers' = [workers EXCEPT ![t].pc = "return"]
        /\ UNCHANGED _lock
        /\ UNCHANGED <<wsVars, oauthVars, call, clientVars, execVars>>

\* get_engine, line 225: return self._engines[database_name], leaving the lock
GetEngineReturn(t) ==
    /\ workers[t].pc = "return"
    /\ workers' = [workers EXCEPT ![t].pc = "done",
                                  ![t].result = _engines[workers[t].database_name]]
    /\ _lock' = 0
    /\ UNCHANGED <<_engines, pools>>
    /\ UNCHANGED <<wsVars, oauthVars, call, clientVars, execVars>>

RegInit ==
    /\ LibQuiet
    /\ WsQuiet
    /\ OAuthQuiet

RegNext ==
    \/ \E t \in 1..MaxThreads, database_name \in DatabaseNames : GetEngineFast(t, database_name)
    \/ \E t \in 1..MaxThreads : GetEngineAcquire(t)
    \/ \E t \in 1..MaxThreads : GetEngineCreate(t)
    \/ \E t \in 1..MaxThreads : GetEngineReturn(t)

SpecRegistry == RegInit /\ [][RegNext]_vars

\* The pools made for one database name
PoolsOf(database_name) == { p \in pools : p.database_name = database_name }

\* C14: no database name ever has two pools; every caller that has returned
\* holds the one pool of its name, which is the registry's entry for it.
C14_OnePoolPerName ==
    /\ \A n \in DatabaseNames : Cardinality(PoolsOf(n)) <= 1
    /\ \A n \in DOMAIN _engines : PoolsOf(n) = {[engine |-> _engines[n], database_name |-> n]}
    /\ \A t \in 1..MaxThreads :
          workers[t].pc = "done"
          => PoolsOf(workers[t].database_name)
                = {[engine |-> workers[t].result,
                    database_name |-> workers[t].database_name]}

\* All threads have returned, two of them after waiting for the lock on one
\* name, and two names were asked for: two pools exist
C14_Witness ==
    /\ \A t \in 1..MaxThreads : workers[t].pc = "done"
    /\ \E t, u \in 1..MaxThreads :
          t # u /\ workers[t].database_name = workers[u].database_name
    /\ Cardinality(pools) = 2

\* ------------------------------------------------------------------------
\* dependencies._resolve_active_workspace on membership lists
\* ------------------------------------------------------------------------
\* tests/test_token_workspace.py _ws(workspace_id, name, is_default=...)
_ws(workspace_id, name, is_default) ==
    [workspace_id |-> workspace_id, workspace_name |-> name, db_name |-> <<"db", name>>,
     role |-> "member", is_default |-> is_default, is_archived |-> FALSE]

\* The memberships of the tests: board, ops and ceo, each with either flag
WsInputs ==
    { _ws(w[1], w[2], d) : w \in {<<1, "board">>, <<2, "ops">>, <<3, "ceo">>}, d \in BOOLEAN }

\* Membership lists as _get_user_memberships builds them: one row per workspace
MembershipLists ==
    { <<a>> : a \in WsInputs }
    \cup { l \in { <<a, b>> : a \in WsInputs, b \in WsInputs } :
               l[1].workspace_id # l[2].workspace_id }
    \cup { <<a, b, c>> : a \in { x \in WsInputs : x.workspace_id = 3 },
                         b \in { x \in WsInputs : x.workspace_id = 1 },
                         c \in { x \in WsInputs : x.workspace_id = 2 } }

\* The requested workspace: absent, empty, a slug or an id, of the list or not
RequestedInputs == {None, "", "board", "ops", "ceo", "1", "2", "3", "finance", "99"}

\* users.default_workspace_id: NULL (0), a workspace of the tests, or one that
\* is no longer there
DefaultInputs == {0, 1, 2, 3, 99}

ResolveArgs ==
    [fn : {"args"}, memberships : MembershipLists, requested : RequestedInputs,
     default_workspace_id : DefaultInputs]

\* One call of _resolve_active_workspace with the arguments drawn at the start
ResolveActiveWorkspace ==
    /\ call.fn = "args"
    /\ call' = [fn |-> "_resolve_active_workspace", memberships |-> call.memberships,
                requested |-> call.requested,
                default_workspace_id |-> call.default_workspace_id,
                result |-> _resolve_active_workspace(call.memberships, call.requested,
                                                     call.default_workspace_id)]
    /\ UNCHANGED <<wsVars, oauthVars, regVars, clientVars, execVars>>

ResolveInit ==
    /\ call \in ResolveArgs
    /\ RegQuiet
    /\ ClientsQuiet
    /\ ExecQuiet
    /\ WsQuiet
    /\ OAuthQuiet

ResolveNext ==
    \/ ResolveActiveWorkspace

SpecResolve == ResolveInit /\ [][ResolveNext]_vars

\* ------------------------------------------------------------------------
\* Properties of the library functions
\* ------------------------------------------------------------------------
PermissionChecked == call.fn = "check_permission"

\* C11: in an archived active workspace create, update and delete are denied
\* for every role and every value of the org-admin flag, and read is allowed.
C11_ArchivedIsReadOnly ==
    (PermissionChecked /\ call.ctx.active.is_archived)
    => /\ call.operation \in {"create", "update", "delete"} => call.result = "deny"
       /\ call.operation = "read" => call.result = "allow"

\* C12: for read, create, update and delete the decision is the same for the
\* context that differs from the checked one only in is_org_admin.
C12_OrgAdminFlagIsInert ==
    (PermissionChecked /\ call.operation \in DataOperations)
    => call.result = check_permission([call.ctx EXCEPT !.is_org_admin = ~@],
                                      call.operation, call.entity)

\* The role table of a non-admin principal in a non-archived workspace;
\* ownsIt says whether a member may update the entity passed
RoleTable(role, operation, ownsIt) ==
    CASE operation = "read" -> "allow"
      [] operation = "create" -> IF role = "viewer" THEN "deny" ELSE "allow"
      [] operation = "update" ->
            IF role = "chair" \/ (role = "member" /\ ownsIt) THEN "allow" ELSE "deny"
      [] operation \in {"delete", "manage_members"} ->
            IF role = "chair" THEN "allow" ELSE "deny"
      [] operation = "manage_workspace" -> "deny"

PlainCheck == PermissionChecked /\ ~call.ctx.is_org_admin /\ ~call.ctx.active.is_archived

\* entity.created_by equals the principal's e-mail
CreatedByPrincipal == \E d \in call.entity : GetCreatedBy(d) = call.ctx.user_email

\* C13 as stated: the decision equals the role table, a member's update
\* being allowed only if entity.created_by equals the principal's e-mail.
C13_RoleTableAsStated ==
    PlainCheck => call.result = RoleTable(call.ctx.active.role, call.operation,
                                          CreatedByPrincipal)

\* C13, amended: the decision equals the role table, a member's update being
\* allowed if no entity or an empty entity is passed, and otherwise only if
\* entity.created_by equals the principal's e-mail.
C13_RoleTable ==
    PlainCheck => call.result = RoleTable(call.ctx.active.role, call.operation,
                      \/ call.entity = {}
                      \/ \E d \in call.entity : d.keys = {}
                      \/ CreatedByPrincipal)

\* A member's update of another principal's entity was denied
C13_Witness ==
    /\ PlainCheck /\ call.ctx.active.role = "member" /\ call.operation = "update"
    /\ \E d \in call.entity : GetCreatedBy(d) = "other@example.com"
    /\ call.result = "deny"

Resolved == call.fn = "_resolve_active_workspace"

\* The first membership of the list that has the property, as a set
FirstWith(memberships, P(_)) ==
    { memberships[i] : i \in { j \in 1..Len(memberships) :
          P(memberships[j]) /\ \A k \in 1..(j - 1) : ~P(memberships[k]) } }

IsRequested(m) == m.workspace_name = call.requested \/ Str(m.workspace_id) = call.requested

IsUserDefault(m) == call.default_workspace_id # 0 /\ m.workspace_id = call.default_workspace_id

IsOrgDefault(m) == m.is_default

IsMembership(m) == TRUE

\* C15: on a non-empty list an explicit request that matches a membership
\* (by slug or by id) selects it; without a request the membership of the
\* user's stored default is selected, else the first org-default one, else
\* the first of the list, and a stored default that matches nothing falls
\* through.
C15_StrictPriority ==
    Resolved =>
        LET ms == call.memberships
            asked == Truthy(call.requested)
        IN  /\ (asked /\ FirstWith(ms, IsRequested) # {})
                  => call.result = [status |-> 200, active |-> FirstWith(ms, IsRequested)]
            /\ ~asked
                  => /\ call.result.status = 200
                     /\ call.result.active =
                           IF FirstWith(ms, IsUserDefault) # {} THEN FirstWith(ms, IsUserDefault)
                           ELSE IF FirstWith(ms, IsOrgDefault) # {} THEN FirstWith(ms, IsOrgDefault)
                           ELSE FirstWith(ms, IsMembership)

\* A stored default that is not the first and not the org default wins over
\* the org default
C15_Witness ==
    /\ Resolved
    /\ ~Truthy(call.requested)
    /\ Len(call.memberships) = 3
    /\ FirstWith(call.memberships, IsOrgDefault) # {}
    /\ FirstWith(call.memberships, IsUserDefault) # {}
    /\ FirstWith(call.memberships, IsUserDefault) # FirstWith(call.memberships, IsOrgDefault)
    /\ call.result.active = FirstWith(call.memberships, IsUserDefault)

\* The URI's host is one of the allow-list's domains or lies under one
HostAllowListed(uri) ==
    \E domain \in AllowedRedirectDomains :
        \E k \in 0..Len(Hostname(uri)) :
            /\ Len(Hostname(uri)) = k + Len(domain)
            /\ \A i \in 1..Len(domain) : Hostname(uri)[k + i] = domain[i]

\* C20: a registration with any redirect URI whose host is outside the
\* allow-list ends in 400 and leaves the client cache and the OAuthClient
\* table as they were, and every client a registration adds to the cache has
\* allow-listed redirect hosts only.
C20_RegisterAllowListed ==
    [][\A redirect_uris \in RegistrationRequests, db \in DbStates :
          register_client(redirect_uris, db)
          => /\ (\E i \in 1..Len(redirect_uris) : ~HostAllowListed(redirect_uris[i]))
                   => /\ resp'.status = 400
                      /\ oauth_clients_cache' = oauth_clients_cache
                      /\ oauth_client_store' = oauth_client_store
             /\ \A c \in DOMAIN oauth_clients_cache' \ DOMAIN oauth_clients_cache :
                   \A uri \in oauth_clients_cache'[c].redirect_uris : HostAllowListed(uri)]_vars

\* A client with a host under an allow-listed domain is in the cache, and
\* the last registration, which named a foreign host, was refused
C20_Witness ==
    /\ resp.op = "register" /\ resp.status = 400
    /\ \E c \in DOMAIN oauth_clients_cache \ DOMAIN RegisteredClients :
          "https://app.chatgpt.com/cb" \in oauth_clients_cache[c].redirect_uris
    /\ next_client = 1

\* ------------------------------------------------------------------------
\* Properties of /oauth/revoke and of validate_oauth_token
\* ------------------------------------------------------------------------
\* C21: /oauth/revoke answers 200 for every token it is given, whatever the
\* write to the RefreshTokenUsage table does.
C21_RevokeAlways200 == resp.op = "revoke" => resp.status = 200

\* C22: a refresh token issued by /oauth/token is never accepted by
\* validate_oauth_token, and an MCP request that carries one as its bearer
\* is answered 401.
C22_RefreshIsNoAccessToken ==
    /\ \A r \in issued : validate_oauth_token(r, utcnow) = None
    /\ (resp.op = "mcp" /\ resp.bearer = "refresh") => resp.status = 401

\* An MCP request with an issued, unexpired refresh token was refused
C22_Witness ==
    /\ resp.op = "mcp" /\ resp.bearer = "refresh" /\ resp.status = 401
    /\ issued # {}
    /\ \A r \in issued : r.exp > utcnow

\* ------------------------------------------------------------------------
\* Properties of the life of an authorization code
\* ------------------------------------------------------------------------
\* A code is minted with ten minutes to live and is exchanged for tokens
\* only within them
ExchangedWithinTenMinutes ==
    [][/\ (resp'.op = "authorize" /\ resp'.status = 302)
            => pending_auth_codes'[resp'.code].expires_at = utcnow + CODE_TTL
       /\ (resp'.op = "token" /\ resp'.status = 200 /\ resp'.code # 0)
            => utcnow <= pending_auth_codes[resp'.code].expires_at]_vars

\* No code is in the pending store after its expiry
NoExpiredCodePending ==
    \A c \in DOMAIN pending_auth_codes : utcnow <= pending_auth_codes[c].expires_at

\* C30: a code is never exchanged for tokens more than ten minutes after it
\* was minted, and it is in the pending store only until its first
\* successful exchange or its expiry.
C30_CodeLivesTenMinutes == ExchangedWithinTenMinutes /\ []NoExpiredCodePending

\* A transient fault of the store, as opposed to an error of the application
TransientStoreFault(e) == e.type = "pyodbc.Error" /\ e.codes # {}

\* C23: when call_with_retry ends and its last attempt, like every attempt
\* before it, raised a transient store fault, the result is the structured
\* DATABASE_UNAVAILABLE value; nothing is raised to the caller.
C23_ExhaustionReturnsUnavailable ==
    (retry.pc = "done" /\ TransientStoreFault(retry.exc)) =>
        retry.result = "DATABASE_UNAVAILABLE"

C23_Witness ==
    /\ retry.pc = "done"
    /\ TransientStoreFault(retry.exc)
    /\ retry.result = "DATABASE_UNAVAILABLE"
    /\ retry.max_retries = MAX_RETRIES
    /\ retry.attempt = MAX_RETRIES

\* C24: an HTTPException raised by the wrapped operation is never retried,
\* whatever its message: no attempt follows it, and the call ends by raising it.
C24_ApplicationErrorNeverRetried ==
    /\ (retry.pc = "acquire" /\ retry.attempt > 0) => retry.exc.type # "HTTPException"
    /\ (retry.pc = "done" /\ retry.exc.type = "HTTPException") => retry.result = "raise"

\* C25: no connection is checked out when an attempt starts or when
\* call_with_retry has returned or raised, and never more than one is.
C25_ConnectionReleasedOnEveryPath ==
    /\ retry.borrowed <= 1
    /\ retry.pc \in {"acquire", "done"} => retry.borrowed = 0

\* The sleeps so far follow min(0.5 * 2^k, 10) seconds, k the failed attempt
BackoffSchedule ==
    \A i \in 1..Len(retry.slept) :
        retry.slept[i] = IF BASE_DELAY * Pow2(i - 1) < MAX_DELAY THEN BASE_DELAY * Pow2(i - 1) ELSE MAX_DELAY

\* The default budget is used up by transient faults
DefaultExhausted ==
    /\ retry.pc = "done"
    /\ retry.max_retries = MAX_RETRIES
    /\ retry.result = "DATABASE_UNAVAILABLE"

\* C29 as stated: with the default settings an operation that keeps raising
\* a transient fault is attempted 3 times in total, and the sleep after failed
\* attempt k is min(0.5 * 2^k, 10) seconds.
C29_ThreeAttempts == (DefaultExhausted => retry.attempt + 1 = 3) /\ BackoffSchedule

\* C29 amended: with the default settings the operation is attempted
\* MAX_RETRIES + 1 = 4 times in total (one attempt and three retries), and
\* the sleep after failed attempt k is min(0.5 * 2^k, 10) seconds.
C29_FourAttempts ==
    /\ DefaultExhausted => (retry.attempt + 1 = MAX_RETRIES + 1 /\ Len(retry.slept) = MAX_RETRIES)
    /\ BackoffSchedule

C29_Witness ==
    DefaultExhausted /\ retry.slept = <<BASE_DELAY, 2 * BASE_DELAY, 4 * BASE_DELAY>>

\* The number of requests of a key passed to the app with a timestamp in [a, b]
ForwardedWithin(key, a, b) ==
    Cardinality({i \in 1..Len(WindowOf(forwarded, key)) : a <= forwarded[key][i] /\ forwarded[key][i] <= b})

\* In every window of the tier's length no more than the tier's cap is forwarded
WithinCap ==
    \A key \in DOMAIN forwarded : \A a \in Instants :
        ForwardedWithin(key, a, a + TIERS[key[1]][2]) <= TIERS[key[1]][1]

\* The request answered last: 429 exactly when the window that ends at its
\* timestamp already held the cap; otherwise its timestamp is the last one
\* recorded and forwarded
AnsweredByCount ==
    rate_resp.key # None =>
        \E cap \in {TIERS[rate_resp.key[1]][1]} :
        \E in_window \in {ForwardedWithin(rate_resp.key, rate_resp.now - TIERS[rate_resp.key[1]][2], rate_resp.now)} :
            IF rate_resp.status = 429
            THEN in_window >= cap
            ELSE /\ in_window <= cap
                 /\ rate_resp.key \in DOMAIN _windows
                 /\ _windows[rate_resp.key][Len(_windows[rate_resp.key])] = rate_resp.now
                 /\ forwarded[rate_resp.key][Len(forwarded[rate_resp.key])] = rate_resp.now

\* A step that answers 429 forwards nothing
RejectedNotForwarded == (rate_lock' /\ ~rate_lock) => forwarded' = forwarded

\* C26: for every key and tier, in any interleaving of concurrent requests,
\* the forwarded requests with timestamps within one window never exceed the
\* tier's cap; a request that finds the cap reached gets 429 and is not
\* forwarded, any other is recorded and forwarded.
C26_WindowNeverExceedsCap ==
    [](WithinCap /\ AnsweredByCount) /\ [][RejectedNotForwarded]_vars

C26_Witness ==
    /\ rate_resp.status = 429
    /\ rate_resp.now < monotonic
    /\ waiters = << >>
    /\ ForwardedWithin(rate_resp.key, 0, MaxWindow) = TIERS[rate_resp.key[1]][1]

\* A validation that began when its token was revoked in the store and no
\* unexpired cache entry for its hash remained has returned None
InvalidAfterRevocation ==
    \A p \in 1..MaxValidations :
        (validating[p].pc = "done" /\ validating[p].after_revocation) => validating[p].email = None

\* A step that answers a validation from the cache finds an entry that was
\* stored less than TOKEN_CACHE_TTL ago
HitWithinTtl ==
    \A p \in 1..MaxValidations :
        (validating'[p].hit /\ ~validating[p].hit) =>
            \E token_hash \in {Sha256(validating'[p].token)} :
                /\ token_hash \in DOMAIN token_cache
                /\ now - (token_cache[token_hash].expires_cache - TOKEN_CACHE_TTL) < TOKEN_CACHE_TTL

C28_SwitchPersists ==
    (mcp.pc = "done" /\ mcp.code = "ok" /\ ~Truthy(mcp.override)) =>
        \A s \in switched : \A c \in mcp.tool_ctx :
            s.user = c.user_email => c.active.workspace_id = s.workspace_id

\* ---------------------------------------------------------------------
\* The token cache under concurrent validations (SpecCache)

\* The step of process p that runs the second locked block of validate_mcp_token
StoreStep(p) == validating[p].pc = "store" /\ validating'[p].pc = "done"

\* No entry of the cache expires before the entry under key k
Earliest(cache, k) ==
    /\ k \in DOMAIN cache
    /\ \A o \in DOMAIN cache : cache[k].expires_cache <= cache[o].expires_cache

\* The keys that a step takes out of the cache
Evicted == DOMAIN token_cache \ DOMAIN token_cache'

\* Every entry but the one under token_hash is as it was
OthersKept(token_hash) ==
    \A k \in DOMAIN token_cache' \ {token_hash} :
        k \in DOMAIN token_cache /\ token_cache'[k] = token_cache[k]

\* Storing a found email into a full cache takes out one entry, the earliest
\* to expire (the hash's own entry if that is the earliest), and into a cache
\* with room takes out none
InsertEvictsEarliest ==
    \A p \in 1..MaxValidations :
        StoreStep(p) /\ validating[p].email # None =>
            /\ Sha256(validating[p].token) \in DOMAIN token_cache'
            /\ token_cache'[Sha256(validating[p].token)].email = validating[p].email
            /\ OthersKept(Sha256(validating[p].token))
            /\ IF Cardinality(DOMAIN token_cache) >= TOKEN_CACHE_MAX_SIZE
               THEN /\ Cardinality(Evicted) <= 1
                    /\ \A k \in Evicted : Earliest(token_cache, k)
                    /\ Evicted = {} => Earliest(token_cache, Sha256(validating[p].token))
               ELSE Evicted = {}

\* A lookup that found no valid token leaves no entry under the hash and
\* touches no other entry
InvalidLookupRemoves ==
    \A p \in 1..MaxValidations :
        StoreStep(p) /\ validating[p].email = None =>
            /\ Sha256(validating[p].token) \notin DOMAIN token_cache'
            /\ Evicted \subseteq {Sha256(validating[p].token)}
            /\ OthersKept(Sha256(validating[p].token))

\* C31: under any interleaving of concurrent validations the token cache
\* never holds more than TOKEN_CACHE_MAX_SIZE entries, an insert into a full
\* cache evicts the entry with the earliest cache expiry, and a lookup that
\* finds no valid token removes the cache entry of that hash
C31_CacheBoundedAndEvictsOldest ==
    /\ [](Cardinality(DOMAIN token_cache) <= TOKEN_CACHE_MAX_SIZE)
    /\ [][InsertEvictsEarliest /\ InvalidLookupRemoves]_vars

\* One validation has stored its email into the full cache, evicting an
\* entry, and a concurrent validation of the same token, revoked meanwhile,
\* has removed it again
C31_Witness ==
    /\ Sha256("tok_ua") \notin DOMAIN token_cache
    /\ Cardinality(DOMAIN token_cache) = TOKEN_CACHE_MAX_SIZE - 1
    /\ \E p, q \in 1..MaxValidations :
          /\ validating[p].pc = "done" /\ validating[p].email # None /\ ~validating[p].hit
          /\ validating[q].pc = "done" /\ validating[q].email = None

\* ---------------------------------------------------------------------
\* The limiter's lock and the sending of responses (SpecRate)

\* C32: the rate limiter's lock is held only around the window mutation,
\* never while a response (the 429 rejection included) is being sent, so no
\* request waits for the lock behind a response in transit
C32_LockFreeWhileSending ==
    /\ ~(rate_lock /\ rate_resp.status = 429)
    /\ ~(rate_lock /\ waiters # << >>)

\* ---------------------------------------------------------------------
\* Token families over several grants (SpecGrant)

\* Authorization codes granted before the first token request
MaxGrants == 2

\* The deployment of SpecOAuth after MaxGrants authorizations of client c1,
\* each with a code of its own, none exchanged yet
GrantInit ==
    /\ LibQuiet
    /\ control_db_name = "mi-control"
    /\ azure_sql_server = "sql.example"
    /\ engine_registry = TRUE
    /\ phase = "serving"
    /\ control_up = TRUE
    /\ now = 0
    /\ rest = RestIdle
    /\ mcp = McpIdle
    /\ token_cache = <<>>
    /\ workspace_cache = <<>>
    /\ utcnow = 0
    /\ oauth_clients_cache = RegisteredClients
    /\ pending_auth_codes =
          [c \in 1..MaxGrants |->
              [client_id |-> "c1", redirect_uri |-> "https://chatgpt.com/cb",
               scope |-> "mcp:read mcp:write", code_challenge |-> S256("v1"),
               code_challenge_method |-> "S256", expires_at |-> CODE_TTL]]
    /\ next_code = MaxGrants
    /\ next_family = 0
    /\ ledger = {}
    /\ issued = {}
    /\ resp = RespIdle
    /\ exchanged = {}
    /\ redeemed = {}
    /\ recorded = {}
    /\ replayed = {}

\* The token requests for the granted codes: the well-formed one of client
\* c1 and the forms that differ from it in the client, the redirect_uri or
\* the verifier; and each refresh token handed out so far
GrantRequests ==
    { [grant_type |-> "authorization_code", code |-> c, redirect_uri |-> f[1],
       client_id |-> f[2], client_secret |-> f[3], code_verifier |-> f[4],
       refresh_token |-> Absent] :
        c \in 1..MaxGrants,
        f \in { <<"https://chatgpt.com/cb", "c1", "secret1", "v1">>,
                <<"https://chatgpt.com/cb", "c2", "secret2", "v1">>,
                <<"https://claude.ai/cb", "c1", "secret1", "v1">>,
                <<"https://chatgpt.com/cb", "c1", "secret1", None>>,
                <<"https://chatgpt.com/cb", "c1", "secret1", "v2">> } }
    \cup
    { [grant_type |-> "refresh_token", code |-> 0, redirect_uri |-> None,
       client_id |-> "c1", client_secret |-> "secret1", code_verifier |-> None,
       refresh_token |-> r] : r \in issued }

GrantNext ==
    \/ \E req \in GrantRequests : \E db \in DbFor(req) : token(req, db)
    \/ \E d \in {1, LongStep} : ClockStep(d)

SpecGrant == GrantInit /\ [][GrantNext]_vars

\* The family ids of a set of refresh tokens
FamiliesOf(tokens) == {t.family : t \in tokens}

\* A code exchange that issues a pair: the new refresh token's family is the
\* family of no token handed out and of no ledger row
ExchangeStartsNewFamily ==
    (resp'.op = "token" /\ resp'.status = 200 /\ exchanged' # exchanged) =>
        /\ issued' # issued
        /\ \A n \in issued' \ issued :
              /\ n.family \notin FamiliesOf(issued)
              /\ \A row \in ledger : row.family_id # n.family

\* A refresh exchange that issues a pair: a refresh token not handed out
\* before has the family (and the client) of the token redeemed, and so has
\* the ledger row written for the redeemed token
RefreshKeepsFamily ==
    (resp'.op = "token" /\ resp'.status = 200 /\ exchanged' = exchanged) =>
        \A n \in issued' \ issued :
            /\ \E r \in redeemed' : r.family = n.family /\ r.sub = n.sub /\ r.iat < n.iat
            /\ \A r \in redeemed' \ redeemed : r.family = n.family
            /\ \A row \in ledger' \ ledger : row.family_id = n.family

\* Each exchanged code started one family, and every refresh token handed
\* out belongs to one of them
OneFamilyPerGrant ==
    /\ Cardinality(exchanged) = next_family
    /\ FamiliesOf(issued) = 1..next_family
    /\ \A row \in ledger : row.family_id \in 1..next_family

\* C33: a refresh exchange hands out a refresh token of the family of the
\* token redeemed, and every authorization_code exchange starts a family id
\* distinct from all existing ones, so the rotations of one grant share
\* exactly one family id
C33_FamilyFollowsGrant ==
    /\ []OneFamilyPerGrant
    /\ [][ExchangeStartsNewFamily /\ RefreshKeepsFamily]_vars

\* A grant's refresh token was redeemed in a later second and recorded in
\* the ledger, and its successor of the same family was handed out
C33_Witness ==
    \E r \in redeemed : \E n \in issued :
        /\ n.family = r.family /\ n.iat > r.iat
        /\ \E row \in ledger : row.token_hash = Sha256(r) /\ row.family_id = n.family

\* ---------------------------------------------------------------------
\* Archived workspaces in resolved contexts (SpecSwitch)

\* Neither the membership list nor the active workspace of ctx is archived
NoArchivedWorkspace(ctx) ==
    /\ ~ctx.active.is_archived
    /\ \A i \in 1..Len(ctx.memberships) : ~ctx.memberships[i].is_archived

\* C34: every WorkspaceContext built from the control store, by the REST
\* resolution or by the pre-cache of the MCP token validation, lists no
\* archived workspace, so no archived workspace is selected as active
C34_NoArchivedMembership ==
    /\ \A e \in DOMAIN workspace_cache : NoArchivedWorkspace(workspace_cache[e].ctx)
    /\ \A ctx \in mcp.ctx \cup mcp.tool_ctx : NoArchivedWorkspace(ctx)

\* ---------------------------------------------------------------------
\* Registration and the persisted client store (SpecRegister)

\* C35: a client that register has answered for and cached is in the
\* persisted store with the same record, its secret as a hash; when
\* persisting fails the client is not cached and no success is reported
C35_RegisteredClientIsPersisted ==
    /\ \A c \in DOMAIN oauth_clients_cache :
          /\ c \in DOMAIN oauth_client_store
          /\ oauth_client_store[c] = oauth_clients_cache[c]
    /\ (resp.op = "register" /\ resp.status = 200) =>
          ClientId(next_client) \in DOMAIN oauth_client_store

\* ---------------------------------------------------------------------
\* Refresh exchanges and the consumption ledger (SpecOAuth)

\* C36: a refresh_token grant issues a token pair only after the hash of
\* the presented token has been written to the consumption ledger; when the
\* ledger cannot be written no tokens are issued
C36_IssuedOnlyAfterLedgerWrite ==
    [][\A req \in TokenRequests : \A db \in DbFor(req) :
          ( /\ req.grant_type = "refresh_token"
            /\ token(req, db)
            /\ resp'.status = 200 )
          => \E row \in ledger' : row.token_hash = Sha256(req.refresh_token)]_vars

\* ---------------------------------------------------------------------
\* main.mcp_auth_middleware from the first header on (SpecMcpAuth)

\* settings.get_cors_origins_list()
_allowed_origins == {"https://claude.ai"}

\* mcp_auth_middleware, line 444
_SUPPORTED_MCP_VERSIONS == {"2024-11-05", "2025-03-26", "2025-06-18", "2025-11-25"}

\* The endpoint, Origin and MCP-Protocol-Version of the requests drawn: the
\* middleware tells POST /mcp from the other MCP endpoints; a header is
\* absent, acceptable or not
McpHeaderInputs ==
    { <<"POST /mcp", None, None>>,
      <<"POST /mcp", "https://claude.ai", "2025-06-18">>,
      <<"POST /mcp", "https://evil.example", "2025-06-18">>,
      <<"POST /mcp", None, "1999-01-01">>,
      <<"GET /mcp", None, "1999-01-01">>,
      <<"GET /sse", "https://claude.ai", None>>,
      <<"GET /sse", "https://evil.example", None>> }

\* mcp_auth_middleware answers by itself before any token is looked at:
\* mcp.kind names the check that answered
McpAnswered(status, check, tok) ==
    /\ phase = "serving"
    /\ mcp.pc \in {"idle", "done"}
    /\ rest.pc \in {"idle", "done"}
    /\ mcp' = [McpIdle EXCEPT !.pc = "done", !.kind = check, !.token = tok, !.status = status]
    /\ rest' = RestIdle
    /\ UNCHANGED <<control_db_name, azure_sql_server, engine_registry, phase,
                   control_up, now, token_cache, workspace_cache>>
    /\ UNCHANGED <<oauthVars, libVars>>

\* mcp_auth_middleware for a request to an MCP endpoint, lines 434-506: the
\* Origin check, the protocol version check of POST /mcp, then the
\* credential ("none" when the request carries none; a path token exists
\* under /mcp only)
McpRequest(endpoint, origin, proto_version, kind, tok) ==
    /\ kind = "path" => endpoint # "GET /sse"
    /\ IF origin # None /\ origin \notin _allowed_origins
       THEN McpAnswered(403, "origin", tok)
       ELSE IF endpoint = "POST /mcp" /\ proto_version # None
                /\ proto_version \notin _SUPPORTED_MCP_VERSIONS
       THEN McpAnswered(400, "version", tok)
       ELSE IF kind = "none"
       THEN McpAnswered(401, "none", tok)
       ELSE mcp_auth_middleware(kind, tok)

\* The deployment of SpecOAuth, no request yet
McpAuthInit == OAuthInit

McpAuthNext ==
    \/ \E h \in McpHeaderInputs, kind \in McpKinds \cup {"none"},
          tok \in {"tok_ua", "tok_orphan", "tok_bad", "oauth_c1"} :
            McpRequest(h[1], h[2], h[3], kind, tok)
    \/ \E w \in {None, "bravo"} : McpToolCall(w)
    \/ ControlStoreFlip
    \/ Tick

SpecMcpAuth == McpAuthInit /\ [][McpAuthNext]_vars

\* The request has a principal: token validation returned an e-mail for its
\* client token, or its bearer is an access token of oauth.token
HasPrincipal ==
    /\ mcp.user # SystemUser
    /\ \/ mcp.validated # None /\ mcp.user = mcp.validated
       \/ mcp.kind = "bearer" /\ mcp.token \in AccessTokens

\* The middleware answered the request itself
AnsweredByMiddleware == mcp.pc = "done" /\ mcp.code = None

\* A request reaches the handler only with a principal
ForwardedHasPrincipal == (mcp.pc = "forwarded" \/ mcp.code # None) => HasPrincipal

RightfulExchange(code) ==
    [grant_type |-> "authorization_code", code |-> code,
     redirect_uri |-> pending_auth_codes[code].redirect_uri,
     client_id |-> pending_auth_codes[code].client_id,
     client_secret |-> IF pending_auth_codes[code].client_id = "c1" THEN "secret1" ELSE "secret2",
     code_verifier |-> "v1", refresh_token |-> Absent]

\* A token request that is not answered with tokens, other than one that
\* presents an expired code, leaves pending_auth_codes as it was
RefusalKeepsCodes ==
    ( /\ resp'.op = "token"
      /\ resp'.status # 200
      /\ ~( /\ resp'.code \in DOMAIN pending_auth_codes
            /\ utcnow > pending_auth_codes[resp'.code].expires_at ) )
    => pending_auth_codes' = pending_auth_codes

\* Every pending code that has not expired is exchanged by the request it
\* was issued for
PendingCodeStillExchangeable ==
    \A code \in DOMAIN pending_auth_codes :
        utcnow <= pending_auth_codes[code].expires_at =>
            \A o \in {token_outcome(RightfulExchange(code), "up")} :
                o.status = 200 /\ o.pair # {}

\* C38: a token request refused for a client_id mismatch, a redirect_uri
\* mismatch or a missing or wrong code_verifier leaves the pending-code
\* store unchanged, so a later exchange of the same code with the correct
\* parameters still succeeds
C38_RefusalLeavesCodePending ==
    /\ []PendingCodeStillExchangeable
    /\ [][RefusalKeepsCodes]_vars

\* A code exchange was just refused with 400 and its code is still pending
\* and unexpired
C38_Witness ==
    /\ resp.op = "token" /\ resp.status = 400
    /\ resp.code \in DOMAIN pending_auth_codes
    /\ utcnow <= pending_auth_codes[resp.code].expires_at

\* ---------------------------------------------------------------------
\* The rotated refresh token and the ledger (SpecGrant)

\* C39: the refresh token returned by a successful refresh exchange differs
\* from every token recorded in the consumption ledger, the token just
\* redeemed included, also when the exchange happens in the clock second of
\* its issuance; so the newest token can always be redeemed once
C39_RotatedTokenIsUnrecorded ==
    [][\A req \in GrantRequests : \A db \in DbFor(req) :
          ( /\ req.grant_type = "refresh_token"
            /\ token(req, db)
            /\ resp'.status = 200 )
          => \A o \in {token_outcome(req, db)} : \A n \in o.pair :
                \A row \in ledger' : row.token_hash # Sha256(n)]_vars

\* ---------------------------------------------------------------------
\* The 429 response and its Retry-After (SpecRate)

\* The step answered a request with 429
Refused429 == rate_resp'.status = 429 /\ <<arrivals, waiters>> # <<arrivals', waiters'>>

\* A refused request adds no timestamp to its key's window and reaches no
\* handler
RefusedIsNotRecorded ==
    Refused429 =>
        /\ Len(_windows'[rate_resp'.key]) <= Len(WindowOf(_windows, rate_resp'.key))
        /\ \A i \in 1..Len(_windows'[rate_resp'.key]) :
              \E j \in 1..Len(WindowOf(_windows, rate_resp'.key)) :
                  _windows'[rate_resp'.key][i] = _windows[rate_resp'.key][j]
        /\ forwarded' = forwarded

\* After a 429, with no other request of the key since, a request of the
\* key at Retry-After seconds after the refusal, or at any later instant,
\* is let through
RetryAfterSuffices ==
    (rate_resp.status = 429 /\ waiters = << >>) =>
        /\ rate_resp.retry_after >= 1
        /\ \A t \in {rate_resp.now + rate_resp.retry_after} \cup
                    {i \in Instants : i >= rate_resp.now + rate_resp.retry_after} :
              Admission(Limiter, rate_resp.key, rate_resp.key[1], t).status # 429

\* C40: a request refused with 429 is not recorded in the window of its
\* key, and a key that sends no request for at least Retry-After seconds
\* after a 429 has its next request admitted
C40_RetryAfterIsSufficient ==
    /\ []RetryAfterSuffices
    /\ [][RefusedIsNotRecorded]_vars

\* A key was refused with 429, has sent nothing since, and the clock has
\* reached the instant the Retry-After names
C40_Witness ==
    /\ rate_resp.status = 429
    /\ waiters = << >>
    /\ ~rate_lock
    /\ monotonic >= rate_resp.now + rate_resp.retry_after

====
